---- MODULE Spec2Model ----
(***************************************************************************)
(* Model of the manga acquisition-and-delivery scripts:                    *)
(*   src/scripts/download.js  (bundling downloader + Telegram delivery),   *)
(*   src/unnamed/part_000     (Telegram uploader with splitting, and the   *)
(*                             downloader that groups chapters),           *)
(*   src/unnamed/part_001     (single-archive downloader),                 *)
(*   src/unnamed/part_002     (per-chapter downloader and uploader).       *)
(* Each component has its own specification over the shared variables:     *)
(*   SpecSelect  chapter feed accumulation and selectChapters              *)
(*   SpecBundle  the inline bundler of the chapter loop and groupChapters  *)
(*   SpecSend    the delivery of bundles (size gate, splitting)            *)
(*   SpecBatch   the delivery loop of download.js over several batches     *)
(*   SpecSplit   the splitFile loop over a file's bytes                    *)
(*   SpecRetry   one sendDocumentWithThumb call with its waits             *)
(*   SpecPages   the chapter loop's catalog calls and page downloads       *)
(*   FairPages   SpecPages with the fairness of main's statements and      *)
(*               timers                                                    *)
(*   SpecRun     one run of main from its environment to its exit          *)
(*   SpecFeed    the paging loop over the chapter feed                     *)
(***************************************************************************)
EXTENDS Integers, Sequences, FiniteSets, TLC

VARIABLES
    \* chapter selection (main: MAX_CHAPTERS, feed loop, selectChapters)
    script,          \* which script's main() is running
    envMaxChapters,  \* process.env.MAX_CHAPTERS
    maxChapters,     \* parseInt(process.env.MAX_CHAPTERS || default, radix)
    allChapters,     \* descriptors accumulated from the feed
    validChapters,   \* result of selectChapters
    selPc,           \* "feed" | "selected"
    \* bundling (chapter loop of download.js, groupChapters of part_000)
    bunScript,       \* "bundle" (inline bundler) | "group" (groupChapters)
    bundleSizeMB,    \* parseInt(process.env.BUNDLE_SIZE_MB || '45', 10)
    chapterList,     \* archive units produced so far, in chapter order
    idx,             \* number of selected chapters processed so far
    bundles,         \* closed bundles / groups
    currentBundle,   \* the open bundle of the chapter loop
    bunPc,           \* "loop" | "done"
    \* delivery
    sndScript,       \* "bundle" (uploadBundle) | "uploader" (part_000 main)
    sndQueue,        \* sizes of the bundle archives still to deliver
    sndParts,        \* sizes of the chunks of the current artifact still to send
    sndI,            \* number of bundles taken from the list (loop variable i / idx)
    rootMessageId,   \* whether the root info message was posted (else null)
    batch,           \* the uploadBundle calls started so far, batch after batch
    submitted,       \* the documents submitted to the destination, in order
    answers,         \* json.ok / data.ok of the answers received, in order
    removed,         \* positions of the bundles whose archive uploadBundle removed
    sndSlept,        \* ms main has slept since the last delivery step ended
    sndGap,          \* ms main had slept when the latest part or batch started
    sndPc,           \* "next" | "wholeSent" | "parts" | "partSent" | "partPause" |
                     \* "bundlePause" | "pause" | "done" | "exit"
    \* splitFile
    buffer,          \* readFileSync(filePath)
    maxChunkSize,
    chunks,
    offset,
    splPc,           \* "loop" | "done"
    \* one call of sendDocumentWithThumb
    attempt,         \* the loop variable of sendDocumentWithThumb
    sendLog,         \* the answers to its requests and the sleep after each
    result,          \* "pending" | "data" | "null" | "thrown"
    \* the chapter loop of download.js with its catalog calls and page downloads
    pgPc,            \* where main is: "feed" | "getFeed" | "info" | "chapterGet" |
                     \* "getReadablePages" | "downloadPages" | "createZip" |
                     \* "pause" | "done" | "exit"
    chapterCount,    \* validChapters.length
    chapterNo,       \* idx + 1 of the chapter loop
    pages,           \* pages.length of the current chapter
    pageI,           \* the loop variable i of downloadPages
    started,         \* pages of the current chapter whose downloadPage was called
    try1,            \* downloads of the current batch in their first fetch
    try2,            \* downloads of the current batch in their second fetch
    orphans,         \* downloads of abandoned batches that are still running
    chapSt,          \* how the last chapter ended: "none" | "archived" | "failed"
    catalogInFlight, \* catalog calls issued and not yet returned
    slept,           \* ms main has slept since the last catalog call was issued
    lastGap,         \* ms main had slept between the last two catalog calls (-1: one call)
    chapDirs,        \* the chapters (by idx + 1) whose directory chapDir exists
    fetches,         \* fetch(pageUrl) calls made for the current chapter while awaited
    exhausted,       \* downloads of the current chapter that failed both fetches
    \* one run of main of download.js, from the environment to the exit
    runScript,       \* "bundle" (download.js 236-447) | "chapter" (download.js 622-838) |
                     \* "part_002" (part_002 127-269)
    runEnv,          \* which of MANGA_INPUT, TELEGRAM_CHAT_ID, TELEGRAM_BOT_TOKEN are set
    runPc,           \* "start" | "mangaGet" | "cover" | "getFeed" | "info" | "chapters" |
                     \* "progress" | "chapter" | "upload" | "finalEdit" | "notify" |
                     \* "exited"
    calls,           \* the kinds of network calls issued: "catalog", "asset", "destination"
    hasCover,        \* downloadCover returned the path of the cover
    infoPosted,      \* rootMessageId is not null
    notifications,   \* failure notifications attempted (sendText of main's catch)
    workDir,         \* the directory manga_download exists
    exitStatus,      \* -1 while the run goes on, then the status of the process
    pending,         \* selected chapters that have not reached the end of their iteration
    archived,        \* chapters whose archive was made
    docs,            \* bundle documents submitted by uploadBundle
    infoFailed,      \* the post of the info (title) message failed
    editFailed,      \* an editMessageText call failed
    \* the paging loop over the chapter feed
    feedScript,      \* "bundle" (download.js 291-304) | "chapter" (download.js 652-675) |
                     \* "part_000" (part_000 438-453)
    feedOffset,      \* the loop variable offset
    feedCount,       \* allChapters.length
    feedAsked,       \* the offsets getFeed was called with
    feedRequests,    \* the number of getFeed calls
    feedEmpty,       \* getFeed has returned an empty page
    feedPc           \* "loop" | "getFeed" | "sleep" | "done" | "exit"

selVars == <<script, envMaxChapters, maxChapters, allChapters, validChapters, selPc>>
bunVars == <<bunScript, bundleSizeMB, chapterList, idx, bundles, currentBundle, bunPc>>
sndVars == <<sndScript, sndQueue, sndParts, sndI, rootMessageId, batch, submitted,
             answers, removed, sndSlept, sndGap, sndPc>>
splVars == <<buffer, maxChunkSize, chunks, offset, splPc>>
rtVars == <<attempt, sendLog, result>>
pgVars == <<pgPc, chapterCount, chapterNo, pages, pageI, started, try1, try2, orphans,
            chapSt, catalogInFlight, slept, lastGap, chapDirs, fetches, exhausted>>
runVars == <<runScript, runEnv, runPc, calls, hasCover, infoPosted, notifications, workDir,
             exitStatus, pending, archived, docs, infoFailed, editFailed>>
feedVars == <<feedScript, feedOffset, feedCount, feedAsked, feedRequests, feedEmpty, feedPc>>
vars == <<selVars, bunVars, sndVars, splVars, rtVars, pgVars, runVars, feedVars>>
\* what the actions of one component leave unchanged
restSel == <<bunVars, sndVars, splVars, rtVars, pgVars, runVars, feedVars>>
restBun == <<selVars, sndVars, splVars, rtVars, pgVars, runVars, feedVars>>
restSnd == <<selVars, bunVars, splVars, rtVars, pgVars, runVars, feedVars>>
restSpl == <<selVars, bunVars, sndVars, rtVars, pgVars, runVars, feedVars>>
restRt == <<selVars, bunVars, sndVars, splVars, pgVars, runVars, feedVars>>
restPg == <<selVars, bunVars, sndVars, splVars, rtVars, runVars, feedVars>>
restRun == <<selVars, bunVars, sndVars, splVars, rtVars, pgVars, feedVars>>
restFeed == <<selVars, bunVars, sndVars, splVars, rtVars, pgVars, runVars>>

(***************************************************************************)
(* Bounds of the model.                                                    *)
(***************************************************************************)
MaxDescriptors == 3
MaxUnits == 4
MaxArtifacts == 2
MaxFileLen == 4
MaxChunk == 3
MaxPageChapters == 2
MaxBundles == 3
MaxRunChapters == 2
MaxRunDocs == 2
MaxPages == 9

(***************************************************************************)
(* JavaScript values.  A number is a record so that NaN and Infinity are   *)
(* values of the same kind as the finite numbers; a string is the sequence *)
(* of its characters, wrapped so that null is a value of the same kind.    *)
(***************************************************************************)
NaN == [kind |-> "nan", val |-> 0]
Infinity == [kind |-> "inf", val |-> 0]
Num(v) == [kind |-> "num", val |-> v]
Null == [isNull |-> TRUE, chars |-> <<>>]
Str(s) == [isNull |-> FALSE, chars |-> s]

\* JS truthiness of a string-or-null value: null and "" are falsy.
Truthy(s) == ~s.isNull /\ s.chars # <<>>
\* a >= b, a <= b and a > b for an integer a and a JS number b: false for NaN.
GE(a, b) == b.kind = "num" /\ a >= b.val
LE(a, b) == b.kind = "num" /\ a <= b.val

Alnum == <<"0", "1", "2", "3", "4", "5", "6", "7", "8", "9",
           "a", "b", "c", "d", "e", "f", "g", "h", "i", "j", "k", "l", "m",
           "n", "o", "p", "q", "r", "s", "t", "u", "v", "w", "x", "y", "z">>
IsAlnum(c) == \E i \in DOMAIN Alnum : Alnum[i] = c
DigitVal(c) == (CHOOSE i \in DOMAIN Alnum : Alnum[i] = c) - 1
IsDigitIn(c, radix) == IsAlnum(c) /\ DigitVal(c) < radix

\* The longest prefix of cs made of digits of the radix: [n |-> its length,
\* v |-> its value, first |-> the value of its first digit].
RECURSIVE ScanDigits(_, _, _)
ScanDigits(cs, radix, acc) ==
    IF cs = <<>> \/ ~IsDigitIn(Head(cs), radix)
    THEN acc
    ELSE ScanDigits(Tail(cs), radix,
                    [n |-> acc.n + 1,
                     v |-> acc.v * radix + DigitVal(Head(cs)),
                     first |-> IF acc.n = 0 THEN DigitVal(Head(cs)) ELSE acc.first])
NoDigits == [n |-> 0, v |-> 0, first |-> 0]

\* parseInt(string, radix) of ECMAScript, for strings without white space or
\* a 0x prefix: a radix other than 0 outside 2..36 gives NaN; otherwise an
\* optional sign and the longest prefix of digits of the radix.
parseInt(str, radix) ==
    IF radix # 0 /\ (radix < 2 \/ radix > 36)
    THEN NaN
    ELSE LET R == IF radix = 0 THEN 10 ELSE radix
             neg == str.chars # <<>> /\ Head(str.chars) = "-"
             body == IF neg THEN Tail(str.chars) ELSE str.chars
             r == ScanDigits(body, R, NoDigits)
         IN  IF r.n = 0 THEN NaN ELSE Num(IF neg THEN 0 - r.v ELSE r.v)

\* parseFloat(string) of ECMAScript for unsigned decimal literals without an
\* exponent: digits, optionally a point and digits; the longest such prefix.
\* The value is held in tenths (2.5 is 25), exact for the chapter numbers
\* of the model, which have at most one decimal.
parseFloat(str) ==
    LET ip == ScanDigits(str.chars, 10, NoDigits)
        rest == SubSeq(str.chars, ip.n + 1, Len(str.chars))
        fp == IF rest # <<>> /\ Head(rest) = "."
              THEN ScanDigits(Tail(rest), 10, NoDigits)
              ELSE NoDigits
    IN  IF ip.n = 0 /\ fp.n = 0 THEN NaN ELSE Num(ip.v * 10 + fp.first)

\* function parseChapterNum(chapStr)
parseChapterNum(chapStr) ==
    IF ~Truthy(chapStr)
    THEN Infinity
    ELSE LET num == parseFloat(chapStr)
         IN  IF num = NaN THEN Infinity ELSE num

(***************************************************************************)
(* main(): const maxChapters = parseInt(process.env.MAX_CHAPTERS || d, r)  *)
(***************************************************************************)
DefaultMaxChapters(s) == IF s = "zip" THEN Str(<<"1", "0", "0", "0">>) ELSE Str(<<"1", "0">>)
RadixMaxChapters(s) == IF s = "zip" THEN 1000 ELSE 10
OrDefault(env, dflt) == IF Truthy(env) THEN env ELSE dflt
readMaxChapters(s, env) == parseInt(OrDefault(env, DefaultMaxChapters(s)), RadixMaxChapters(s))

(***************************************************************************)
(* function selectChapters(allChapters, maxChapters)                       *)
(***************************************************************************)
NoCh == [id |-> 0, chapter |-> Null, translatedLanguage |-> "", externalUrl |-> FALSE]
emptyEntry == [english |-> NoCh, other |-> NoCh]

\* if (!ch.chapter || ch.externalUrl) continue; ... if (chapNum === Infinity) continue;
skippedIgnoringExternal(ch) ==
    ~Truthy(ch.chapter) \/ parseChapterNum(ch.chapter) = Infinity
skipped(ch) ==
    \/ ~Truthy(ch.chapter)
    \/ ch.externalUrl
    \/ parseChapterNum(ch.chapter) = Infinity

\* if (isEnglish) entry.english = ch; else if (!entry.other) entry.other = ch;
putEntryLastOther(entry, ch) ==
    IF ch.translatedLanguage = "en"
    THEN [entry EXCEPT !.english = ch]
    ELSE [entry EXCEPT !.other = ch]
putEntry(entry, ch) ==
    IF ch.translatedLanguage = "en"
    THEN [entry EXCEPT !.english = ch]
    ELSE IF entry.other = NoCh THEN [entry EXCEPT !.other = ch] ELSE entry

\* the chapterMap after the first n descriptors of the list
RECURSIVE buildMap(_, _)
buildMap(all, n) ==
    IF n = 0
    THEN <<>>
    ELSE LET m == buildMap(all, n - 1)
             ch == all[n]
         IN  IF skipped(ch)
             THEN m
             ELSE LET k == parseChapterNum(ch.chapter).val
                      e == IF k \in DOMAIN m THEN m[k] ELSE emptyEntry
                  IN  [x \in (DOMAIN m) \cup {k} |->
                          IF x = k THEN putEntry(e, ch) ELSE m[x]]

\* Array.from(chapterMap.keys()).sort((a, b) => a - b)
RECURSIVE sortedKeys(_)
sortedKeys(S) ==
    IF S = {}
    THEN <<>>
    ELSE LET lo == CHOOSE x \in S : \A y \in S : x <= y
         IN  <<lo>> \o sortedKeys(S \ {lo})

\* const chosen = entry.english || entry.other;
chosenOtherFirst(entry) == IF entry.other # NoCh THEN entry.other ELSE entry.english
chosen(entry) == IF entry.english # NoCh THEN entry.english ELSE entry.other

\* { ...chosen, _isEnglish: !!entry.english, _chapNum: chapNum }
selectedItem(entry, chapNum) ==
    LET c == chosen(entry)
    IN  [id |-> c.id, chapter |-> c.chapter,
         translatedLanguage |-> c.translatedLanguage,
         externalUrl |-> c.externalUrl,
         isEnglish |-> entry.english # NoCh, chapNum |-> chapNum]

\* for (const chapNum of sortedKeys) { if (selected.length >= maxChapters) break; ... }
RECURSIVE pickLoop(_, _, _, _, _)
pickLoop(keys, i, m, maxCh, selected) ==
    IF i > Len(keys) \/ GE(Len(selected), maxCh)
    THEN selected
    ELSE pickLoop(keys, i + 1, m, maxCh,
                  IF chosen(m[keys[i]]) # NoCh
                  THEN Append(selected, selectedItem(m[keys[i]], keys[i]))
                  ELSE selected)

selectChapters(all, maxCh) ==
    LET m == buildMap(all, Len(all))
    IN  pickLoop(sortedKeys(DOMAIN m), 1, m, maxCh, <<>>)

(***************************************************************************)
(* SpecSelect: the feed accumulates descriptors, then selectChapters runs. *)
(***************************************************************************)
\* The descriptors the feed can return: chapter "1" in English and Japanese,
\* "01" (the same number as "1"), "1.5", "2" in English and Japanese, and
\* descriptors with a null, an empty or an unparsable chapter value or with
\* an external URL.
Descriptor(chars, lang) ==
    [chapter |-> Str(chars), translatedLanguage |-> lang, externalUrl |-> FALSE]
FeedDescriptors ==
    {Descriptor(<<"1">>, "en"), Descriptor(<<"1">>, "ja"),
     Descriptor(<<"0", "1">>, "ja"), Descriptor(<<"1", ".", "5">>, "en"),
     Descriptor(<<"2">>, "en"), Descriptor(<<"2">>, "ja"),
     Descriptor(<<>>, "ja"), Descriptor(<<"x">>, "en"),
     [chapter |-> Null, translatedLanguage |-> "en", externalUrl |-> FALSE],
     [chapter |-> Str(<<"1">>), translatedLanguage |-> "en", externalUrl |-> TRUE]}
EnvMaxChaptersValues == {Null, Str(<<"1">>), Str(<<"2">>), Str(<<"x">>)}
\* The runs of the model: download.js with each setting of MAX_CHAPTERS,
\* part_001 with the setting absent and with "1".
RunConfigs ==
    ({"bundle"} \X EnvMaxChaptersValues) \cup ({"zip"} \X {Null, Str(<<"1">>)})

withId(d, id) ==
    [id |-> id, chapter |-> d.chapter,
     translatedLanguage |-> d.translatedLanguage, externalUrl |-> d.externalUrl]

BunIdle ==
    /\ bunScript = "bundle"
    /\ bundleSizeMB = NaN
    /\ chapterList = <<>>
    /\ idx = 0
    /\ bundles = <<>>
    /\ currentBundle = [chapters |-> <<>>, size |-> 0]
    /\ bunPc = "done"
SndIdle ==
    /\ sndScript = "bundle"
    /\ sndQueue = <<>>
    /\ sndParts = <<>>
    /\ sndI = 0
    /\ rootMessageId = FALSE
    /\ batch = <<>>
    /\ submitted = <<>>
    /\ answers = <<>>
    /\ removed = {}
    /\ sndSlept = 0
    /\ sndGap = 0
    /\ sndPc = "done"
SplIdle ==
    /\ buffer = <<>>
    /\ maxChunkSize = 1
    /\ chunks = <<>>
    /\ offset = 0
    /\ splPc = "done"
SelIdle ==
    /\ script = "bundle"
    /\ envMaxChapters = Null
    /\ maxChapters = NaN
    /\ allChapters = <<>>
    /\ validChapters = <<>>
    /\ selPc = "selected"
RtIdle ==
    /\ attempt = 1
    /\ sendLog = <<>>
    /\ result = "data"
PgIdle ==
    /\ pgPc = "done"
    /\ chapterCount = 0
    /\ chapterNo = 0
    /\ pages = 0
    /\ pageI = 0
    /\ started = 0
    /\ try1 = 0
    /\ try2 = 0
    /\ orphans = 0
    /\ chapSt = "none"
    /\ catalogInFlight = 0
    /\ slept = 0
    /\ lastGap = -1
    /\ chapDirs = {}
    /\ fetches = 0
    /\ exhausted = 0
RunIdle ==
    /\ runScript = "bundle"
    /\ runEnv = [mangaInput |-> TRUE, chatId |-> TRUE, token |-> TRUE]
    /\ runPc = "exited"
    /\ calls = {}
    /\ hasCover = FALSE
    /\ infoPosted = FALSE
    /\ notifications = 0
    /\ workDir = FALSE
    /\ exitStatus = 0
    /\ pending = 0
    /\ archived = 0
    /\ docs = 0
    /\ infoFailed = FALSE
    /\ editFailed = FALSE
FeedIdle ==
    /\ feedScript = "bundle"
    /\ feedOffset = 0
    /\ feedCount = 0
    /\ feedAsked = {}
    /\ feedRequests = 0
    /\ feedEmpty = FALSE
    /\ feedPc = "done"
\* the components that do not run in a specification
IdleButSel == BunIdle /\ SndIdle /\ SplIdle /\ RtIdle /\ PgIdle /\ RunIdle /\ FeedIdle
IdleButBun == SndIdle /\ SplIdle /\ RtIdle /\ PgIdle /\ RunIdle /\ FeedIdle
IdleButSnd == SelIdle /\ BunIdle /\ SplIdle /\ RtIdle /\ PgIdle /\ RunIdle /\ FeedIdle
IdleButSpl == SelIdle /\ BunIdle /\ SndIdle /\ RtIdle /\ PgIdle /\ RunIdle /\ FeedIdle
IdleButRt == SelIdle /\ BunIdle /\ SndIdle /\ SplIdle /\ PgIdle /\ RunIdle /\ FeedIdle
IdleButPg == SelIdle /\ BunIdle /\ SndIdle /\ SplIdle /\ RtIdle /\ RunIdle /\ FeedIdle
IdleButRun == SelIdle /\ BunIdle /\ SndIdle /\ SplIdle /\ RtIdle /\ PgIdle /\ FeedIdle
IdleButFeed == SelIdle /\ BunIdle /\ SndIdle /\ SplIdle /\ RtIdle /\ PgIdle /\ RunIdle

SelInit ==
    /\ \E cfg \in RunConfigs :
          /\ script = cfg[1]
          /\ envMaxChapters = cfg[2]
          /\ maxChapters = readMaxChapters(cfg[1], cfg[2])
    /\ allChapters = <<>>
    /\ validChapters = <<>>
    /\ selPc = "feed"
    /\ IdleButSel

\* allChapters.push(...chapters), one descriptor of the feed at a time
FeedPush ==
    /\ selPc = "feed"
    /\ Len(allChapters) < MaxDescriptors
    /\ \E d \in FeedDescriptors :
          allChapters' = Append(allChapters, withId(d, Len(allChapters) + 1))
    /\ UNCHANGED <<script, envMaxChapters, maxChapters, validChapters, selPc>>
    /\ UNCHANGED restSel

\* const validChapters = selectChapters(allChapters, maxChapters);
Select ==
    /\ selPc = "feed"
    /\ validChapters' = selectChapters(allChapters, maxChapters)
    /\ selPc' = "selected"
    /\ UNCHANGED <<script, envMaxChapters, maxChapters, allChapters>>
    /\ UNCHANGED restSel

SelNext == FeedPush \/ Select
SpecSelect == SelInit /\ [][SelNext]_vars

(***************************************************************************)
(* Properties of chapter selection.                                        *)
(***************************************************************************)
Selected == selPc = "selected"
IsDecimalDigit(c) == c \in {"0", "1", "2", "3", "4", "5", "6", "7", "8", "9"}
\* The chapter string starts with a decimal number.
HasNumericPrefix(cs) ==
    /\ cs # <<>>
    /\ \/ IsDecimalDigit(cs[1])
       \/ cs[1] = "." /\ Len(cs) >= 2 /\ IsDecimalDigit(cs[2])
\* A descriptor with a missing or unparsable chapter value, or external-only.
Invalid(d) ==
    \/ d.chapter.isNull
    \/ ~HasNumericPrefix(d.chapter.chars)
    \/ d.externalUrl
KeyOf(d) == parseChapterNum(d.chapter).val
IsValidAt(i) == ~Invalid(allChapters[i])
\* the positions of the valid descriptors with numeric key k
Candidates(k) == {i \in DOMAIN allChapters : IsValidAt(i) /\ KeyOf(allChapters[i]) = k}
EnglishCandidates(k) == {i \in Candidates(k) : allChapters[i].translatedLanguage = "en"}
OtherCandidates(k) == Candidates(k) \ EnglishCandidates(k)
MinOf(S) == CHOOSE x \in S : \A y \in S : x <= y
StrictlyAscendingKeys(sel) ==
    \A i, j \in DOMAIN sel : i < j => sel[i].chapNum < sel[j].chapNum
\* MAX_CHAPTERS (or the script's default) read as the decimal numeral it is
ConfiguredMaxChapters ==
    parseInt(OrDefault(envMaxChapters, DefaultMaxChapters(script)), 10)

\* C1: whatever the descriptors and whatever MAX_CHAPTERS value the run is
\* configured with, the selection has at most that many entries and its
\* numeric keys are strictly increasing (so no key occurs twice).
C1_SelectionBounded ==
    Selected =>
        /\ (ConfiguredMaxChapters.kind = "num" /\ ConfiguredMaxChapters.val >= 0)
               => Len(validChapters) <= ConfiguredMaxChapters.val
        /\ StrictlyAscendingKeys(validChapters)

\* C2: a key that has a valid English descriptor and a valid descriptor of
\* another language, in any input order, is output as an English descriptor
\* of that key.
C2_PreferredLanguageWins ==
    Selected =>
        \A n \in DOMAIN validChapters :
            LET e == validChapters[n]
            IN  (EnglishCandidates(e.chapNum) # {} /\ OtherCandidates(e.chapNum) # {})
                    => /\ e.translatedLanguage = "en"
                       /\ e.isEnglish
                       /\ e.id \in EnglishCandidates(e.chapNum)
C2_Witness ==
    /\ Selected
    /\ \E n \in DOMAIN validChapters :
          \E a \in EnglishCandidates(validChapters[n].chapNum) :
              \E b \in OtherCandidates(validChapters[n].chapNum) : b < a

\* the catalogue [{"1","en"},{"1","ja"},{"2","ja"}] of the scenario
ScenarioFeed ==
    /\ Len(allChapters) = 3
    /\ allChapters[1].chapter = Str(<<"1">>) /\ allChapters[1].translatedLanguage = "en"
    /\ allChapters[2].chapter = Str(<<"1">>) /\ allChapters[2].translatedLanguage = "ja"
    /\ allChapters[3].chapter = Str(<<"2">>) /\ allChapters[3].translatedLanguage = "ja"
    /\ \A i \in 1..3 : ~allChapters[i].externalUrl
    /\ maxChapters = Num(10)
ScenarioSelection ==
    /\ Len(validChapters) = 2
    /\ validChapters[1].id = 1 /\ validChapters[1].chapNum = 10
    /\ validChapters[1].translatedLanguage = "en" /\ validChapters[1].isEnglish
    /\ validChapters[2].id = 3 /\ validChapters[2].chapNum = 20
    /\ validChapters[2].translatedLanguage = "ja" /\ ~validChapters[2].isEnglish

\* C3: a key without an English descriptor is selected all the same, as its
\* first-seen descriptor of another language, unless the selection was cut
\* at maxChapters before that key; the catalogue of the scenario with
\* maxChapters = 10 gives exactly [1 (en), 2 (ja)].
C3_OtherLanguageFallback ==
    Selected =>
        /\ \A i \in DOMAIN allChapters :
              (IsValidAt(i) /\ EnglishCandidates(KeyOf(allChapters[i])) = {})
                  => LET k == KeyOf(allChapters[i])
                     IN  \/ \E n \in DOMAIN validChapters :
                               /\ validChapters[n].chapNum = k
                               /\ validChapters[n].id = MinOf(OtherCandidates(k))
                               /\ ~validChapters[n].isEnglish
                         \/ /\ GE(Len(validChapters), maxChapters)
                            /\ \A n \in DOMAIN validChapters : validChapters[n].chapNum < k
        /\ ScenarioFeed => ScenarioSelection
C3_Witness == Selected /\ ScenarioFeed /\ ScenarioSelection

\* C4: among several candidates of equal priority for a key (several English
\* descriptors, or no English one and several others) the first-seen one in
\* input order is kept.
C4_FirstSeenWins ==
    Selected =>
        \A n \in DOMAIN validChapters :
            LET k == validChapters[n].chapNum
            IN  validChapters[n].id =
                    IF EnglishCandidates(k) # {}
                    THEN MinOf(EnglishCandidates(k))
                    ELSE MinOf(OtherCandidates(k))

\* C5: no descriptor with a missing or unparsable chapter value or with the
\* external-only flag is ever selected, and the selection is the one made
\* from the catalogue with those descriptors removed.
C5_InvalidDropped ==
    Selected =>
        /\ \A n \in DOMAIN validChapters :
              \E i \in DOMAIN allChapters :
                  /\ allChapters[i].id = validChapters[n].id
                  /\ IsValidAt(i)
        /\ LET IsValid(d) == ~Invalid(d)
           IN  validChapters = selectChapters(SelectSeq(allChapters, IsValid), maxChapters)
C5_Witness ==
    /\ Selected
    /\ validChapters # <<>>
    /\ \E i, j \in DOMAIN allChapters :
          /\ allChapters[i].externalUrl
          /\ allChapters[i].translatedLanguage = "en"
          /\ IsValidAt(j)
          /\ allChapters[j].translatedLanguage # "en"
          /\ KeyOf(allChapters[j]) = parseChapterNum(allChapters[i].chapter).val
    /\ \E i \in DOMAIN allChapters :
          allChapters[i].chapter.isNull \/ ~HasNumericPrefix(allChapters[i].chapter.chars)

(***************************************************************************)
(* Bundling.  download.js closes bundles inside its chapter loop; part_000 *)
(* collects chapterList and calls groupChapters on it afterwards.          *)
(***************************************************************************)
MB == 1024 * 1024
TELEGRAM_FILE_LIMIT == 50 * 1024 * 1024

\* Sizes createZip can report for one chapter archive.
UnitSizes == {10 * MB, 25 * MB, 25 * MB + 1, 30 * MB, 60 * MB}
\* process.env.BUNDLE_SIZE_MB: unset, "25", "x"
EnvBundleSizeValues == {Null, Str(<<"2", "5">>), Str(<<"x">>)}
\* const bundleSizeMB = parseInt(process.env.BUNDLE_SIZE_MB || '45', 10);
readBundleSizeMB(env) == parseInt(OrDefault(env, Str(<<"4", "5">>)), 10)

RECURSIVE SumSizes(_)
SumSizes(units) == IF units = <<>> THEN 0 ELSE Head(units).size + SumSizes(Tail(units))

\* if (currentBundle.size + zipSize > TELEGRAM_FILE_LIMIT && currentBundle.chapters.length > 0)
closesBundleInclusive(cur, zipSize) ==
    cur.size + zipSize >= TELEGRAM_FILE_LIMIT /\ Len(cur.chapters) > 0
closesBundleOnUnitAlone(cur, zipSize) ==
    zipSize > TELEGRAM_FILE_LIMIT /\ Len(cur.chapters) > 0
closesBundle(cur, zipSize) ==
    cur.size + zipSize > TELEGRAM_FILE_LIMIT /\ Len(cur.chapters) > 0

emptyBundle == [chapters |-> <<>>, size |-> 0]

\* groupChapters keeps currentSize in MB (chapter.size / (1024 * 1024)) and
\* compares it with maxSizeMB.  The division by 2^20 and the sums are exact
\* in binary floating point for archive sizes, so the model holds
\* currentSize in bytes and scales maxSizeMB instead; NaN compares false.
\* if (currentSize + chapterSizeMB <= maxSizeMB)
fitsStrictly(currentSize, size, maxSizeMB) ==
    maxSizeMB.kind = "num" /\ currentSize + size < maxSizeMB.val * MB
fits(currentSize, size, maxSizeMB) ==
    maxSizeMB.kind = "num" /\ currentSize + size <= maxSizeMB.val * MB

NoGroup == [chapters |-> <<>>, totalSize |-> 0, startChapter |-> 0, endChapter |-> 0]
newGroup(chapter) ==
    [chapters |-> <<chapter>>, totalSize |-> chapter.size,
     startChapter |-> chapter.chapNum, endChapter |-> chapter.chapNum]

\* one iteration of `for (const chapter of chapterList)`, on the loop state
\* [groups, currentGroup, currentSize]
groupStep(st, chapter, maxSizeMB) ==
    IF st.currentGroup = NoGroup
    THEN [groups |-> st.groups, currentGroup |-> newGroup(chapter),
          currentSize |-> chapter.size]
    ELSE IF fits(st.currentSize, chapter.size, maxSizeMB)
    THEN [groups |-> st.groups,
          currentGroup |-> [chapters |-> Append(st.currentGroup.chapters, chapter),
                            totalSize |-> st.currentGroup.totalSize + chapter.size,
                            startChapter |-> st.currentGroup.startChapter,
                            endChapter |-> chapter.chapNum],
          currentSize |-> st.currentSize + chapter.size]
    ELSE [groups |-> Append(st.groups, st.currentGroup),
          currentGroup |-> newGroup(chapter),
          currentSize |-> chapter.size]

RECURSIVE groupLoop(_, _, _)
groupLoop(list, n, maxSizeMB) ==
    IF n = 0
    THEN [groups |-> <<>>, currentGroup |-> NoGroup, currentSize |-> 0]
    ELSE groupStep(groupLoop(list, n - 1, maxSizeMB), list[n], maxSizeMB)

\* function groupChapters(chapterList, maxSizeMB = 45)
groupChapters(list, maxSizeMB) ==
    LET st == groupLoop(list, Len(list), maxSizeMB)
    IN  IF st.currentGroup # NoGroup THEN Append(st.groups, st.currentGroup) ELSE st.groups

\* if (currentBundle.chapters.length > 0) bundles.push(currentBundle);
finalBundlesDroppingOpen(bs, cur) == bs
finalBundles(bs, cur) == IF Len(cur.chapters) > 0 THEN Append(bs, cur) ELSE bs

\* n selected chapters with ascending numbers 1, 2, ... (in tenths)
SelectedRun(n) ==
    [i \in 1..n |-> [id |-> i, chapter |-> Null, translatedLanguage |-> "en",
                     externalUrl |-> FALSE, isEnglish |-> TRUE, chapNum |-> 10 * i]]

BunInit ==
    /\ bunScript \in {"bundle", "group"}
    /\ bundleSizeMB \in {readBundleSizeMB(e) : e \in
                            IF bunScript = "group" THEN EnvBundleSizeValues ELSE {Null}}
    /\ chapterList = <<>>
    /\ idx = 0
    /\ bundles = <<>>
    /\ currentBundle = emptyBundle
    /\ bunPc = "loop"
    /\ script = "bundle"
    /\ envMaxChapters = Null
    /\ maxChapters = NaN
    /\ allChapters = <<>>
    /\ validChapters \in {SelectedRun(n) : n \in 1..MaxUnits}
    /\ selPc = "selected"
    /\ IdleButBun

\* One iteration of the chapter loop in which download and createZip succeed.
\* download.js: the archive is placed in the open bundle, after closing it
\* when it would overflow.  part_000: chapterList.push({...}).
ChapterArchived ==
    /\ bunPc = "loop"
    /\ idx < Len(validChapters)
    /\ \E zipSize \in UnitSizes :
          LET unit == [chapNum |-> validChapters[idx + 1].chapNum, size |-> zipSize]
              closing == bunScript = "bundle" /\ closesBundle(currentBundle, zipSize)
              cur == IF closing THEN emptyBundle ELSE currentBundle
          IN  /\ chapterList' = Append(chapterList, unit)
              /\ bundles' = IF closing THEN Append(bundles, currentBundle) ELSE bundles
              /\ currentBundle' =
                    IF bunScript = "bundle"
                    THEN [chapters |-> Append(cur.chapters, unit), size |-> cur.size + zipSize]
                    ELSE currentBundle
    /\ idx' = idx + 1
    /\ UNCHANGED <<bunScript, bundleSizeMB, bunPc>>
    /\ UNCHANGED restBun

\* One iteration in which Chapter.get, a page download or createZip throws.
\* download.js catches it and goes on to the next chapter; part_000 has no
\* try around the iteration, so main's catch ends the run (process.exit(1)).
ChapterFailed ==
    /\ bunPc = "loop"
    /\ idx < Len(validChapters)
    /\ IF bunScript = "bundle"
       THEN idx' = idx + 1 /\ bunPc' = bunPc
       ELSE idx' = idx /\ bunPc' = "aborted"
    /\ UNCHANGED <<bunScript, bundleSizeMB, chapterList, bundles, currentBundle>>
    /\ UNCHANGED restBun

\* After the loop: download.js pushes the open bundle; part_000 calls
\* groupChapters(chapterList, bundleSizeMB).
LoopEnd ==
    /\ bunPc = "loop"
    /\ idx = Len(validChapters)
    /\ bundles' = IF bunScript = "bundle"
                  THEN finalBundles(bundles, currentBundle)
                  ELSE groupChapters(chapterList, bundleSizeMB)
    /\ bunPc' = "done"
    /\ UNCHANGED <<bunScript, bundleSizeMB, chapterList, idx, currentBundle>>
    /\ UNCHANGED restBun

BunNext == ChapterArchived \/ ChapterFailed \/ LoopEnd
SpecBundle == BunInit /\ [][BunNext]_vars

(***************************************************************************)
(* Properties of bundling.                                                 *)
(***************************************************************************)
BundlingDone == bunPc = "done"
\* the cap of the running script, in bytes
CapBytes ==
    IF bunScript = "bundle"
    THEN Num(TELEGRAM_FILE_LIMIT)
    ELSE IF bundleSizeMB.kind = "num" THEN Num(bundleSizeMB.val * MB) ELSE NaN
RecordedTotal(b) == IF bunScript = "bundle" THEN b.size ELSE b.totalSize
Members(bs) == [i \in DOMAIN bs |-> bs[i].chapters]
RECURSIVE Flatten(_)
Flatten(ss) == IF ss = <<>> THEN <<>> ELSE Head(ss) \o Flatten(Tail(ss))
WithinCap(b) ==
    /\ RecordedTotal(b) = SumSizes(b.chapters)
    /\ Len(b.chapters) >= 1
    /\ Len(b.chapters) = 1 \/ LE(SumSizes(b.chapters), CapBytes)

\* C6: every bundle, of the chapter loop's bundler and of groupChapters, has
\* a total size (the sum of its members' sizes) of at most the cap unless
\* it has exactly one member.
C6_BundleWithinCap ==
    /\ \A i \in DOMAIN bundles : WithinCap(bundles[i])
    /\ (bunScript = "bundle" /\ currentBundle # emptyBundle) => WithinCap(currentBundle)
C6_Witness ==
    /\ BundlingDone
    /\ \E i, j \in DOMAIN bundles :
          /\ Len(bundles[i].chapters) = 2
          /\ LE(SumSizes(bundles[i].chapters), CapBytes)
          /\ GE(SumSizes(bundles[i].chapters), CapBytes)
          /\ Len(bundles[j].chapters) = 1
          /\ ~LE(SumSizes(bundles[j].chapters), CapBytes)

\* C7: the members of all bundles, in bundle order and then in order within
\* the bundle, are exactly the archive units that were produced, each once
\* and in ascending chapter order; during the chapter loop the open bundle
\* holds the units not yet in a closed bundle.
C7_BundlesPartitionUnits ==
    /\ \A i, j \in DOMAIN chapterList :
          i < j => chapterList[i].chapNum < chapterList[j].chapNum
    /\ BundlingDone => Flatten(Members(bundles)) = chapterList
    /\ (bunPc = "loop" /\ bunScript = "bundle")
          => Flatten(Members(bundles)) \o currentBundle.chapters = chapterList
C7_Witness ==
    /\ BundlingDone
    /\ bunScript = "bundle"
    /\ Len(bundles) >= 2
    /\ Len(chapterList) >= 3
    /\ Len(chapterList) < idx
    /\ bundles[Len(bundles)] = currentBundle

\* the greedy single-pass partition: a unit joins the current bundle iff
\* that bundle is empty or its total plus the unit's size is at most the
\* cap; otherwise the bundle is closed and the unit starts a new one
RECURSIVE GreedyPartition(_, _, _)
GreedyPartition(units, n, cap) ==
    IF n = 0
    THEN <<>>
    ELSE LET prev == GreedyPartition(units, n - 1, cap)
             u == units[n]
         IN  IF prev = <<>>
             THEN << <<u>> >>
             ELSE IF LE(SumSizes(prev[Len(prev)]) + u.size, cap)
             THEN [prev EXCEPT ![Len(prev)] = Append(@, u)]
             ELSE Append(prev, <<u>>)
SizesOf(units) == [i \in DOMAIN units |-> units[i].size]
ScenarioUnits ==
    /\ bunScript = "group"
    /\ bundleSizeMB = Num(25)
    /\ SizesOf(chapterList) = <<10 * MB, 10 * MB, 10 * MB, 30 * MB>>
ScenarioBundles ==
    /\ Len(bundles) = 3
    /\ SizesOf(bundles[1].chapters) = <<10 * MB, 10 * MB>>
    /\ SizesOf(bundles[2].chapters) = <<10 * MB>>
    /\ SizesOf(bundles[3].chapters) = <<30 * MB>>

\* C8: the bundles are the greedy single-pass partition of the units under
\* the cap; sizes [10,10,10,30] MB with a cap of 25 MB give
\* [[10,10],[10],[30]].
C8_GreedyPartition ==
    BundlingDone =>
        /\ Members(bundles) = GreedyPartition(chapterList, Len(chapterList), CapBytes)
        /\ ScenarioUnits => ScenarioBundles
C8_Witness == BundlingDone /\ ScenarioUnits /\ ScenarioBundles

\* the bundles of the chapter loop once the open bundle is pushed (line 378)
InlineBundles == IF bunPc = "done" THEN bundles ELSE finalBundles(bundles, currentBundle)
\* the cap of the chapter loop's bundler as a maxSizeMB of groupChapters
InlineCapMB == Num(TELEGRAM_FILE_LIMIT \div MB)

\* C40: for the same ordered list of archive sizes and the same cap, the
\* bundler of the chapter loop and groupChapters produce the same partition:
\* after every iteration of the chapter loop, its bundles (closed and open)
\* have the members of the groups groupChapters makes of the units so far.
C40_InlineBundlerIsGroupChapters ==
    bunScript = "bundle" =>
        Members(InlineBundles) = Members(groupChapters(chapterList, InlineCapMB))
C40_Witness ==
    /\ bunScript = "bundle"
    /\ BundlingDone
    /\ Len(bundles) = 3
    /\ SizesOf(bundles[1].chapters) = <<25 * MB, 25 * MB>>
    /\ SizesOf(bundles[2].chapters) = <<25 * MB + 1>>
    /\ SizesOf(bundles[3].chapters) = <<60 * MB>>
    /\ Members(bundles) = Members(groupChapters(chapterList, InlineCapMB))

\* C15: a selected chapter whose download or packing fails is skipped, it
\* adds no archive unit, and the run goes on with the next selected
\* chapter: the chapter loop is never left by a chapter's failure.
C15_ChapterFailureSkipped ==
    /\ Len(chapterList) <= idx
    /\ bunPc # "aborted"

(***************************************************************************)
(* splitFile(filePath, maxChunkSize), part_000.                            *)
(***************************************************************************)
Min(a, b) == IF a <= b THEN a ELSE b
ByteValues == {0, 1}
RECURSIVE SeqsUpTo(_, _)
SeqsUpTo(S, n) ==
    IF n = 0
    THEN {<<>>}
    ELSE SeqsUpTo(S, n - 1) \cup
         {Append(q, x) : q \in {r \in SeqsUpTo(S, n - 1) : Len(r) = n - 1}, x \in S}

\* buffer.slice(start, end): the bytes at offsets start .. end-1, end clamped
\* to the buffer's length
sliceDroppingLast(buf, start, end) == SubSeq(buf, start + 1, Min(end, Len(buf)) - 1)
slice(buf, start, end) == SubSeq(buf, start + 1, Min(end, Len(buf)))

SplInit ==
    /\ buffer \in SeqsUpTo(ByteValues, MaxFileLen)
    /\ maxChunkSize \in 1..MaxChunk
    /\ chunks = <<>>
    /\ offset = 0
    /\ splPc = "loop"
    /\ IdleButSpl

\* the condition of `while (offset < buffer.length)`
moreToSplitInclusive(off, len) == off <= len
moreToSplit(off, len) == off < len

\* while (offset < buffer.length) { chunks.push(buffer.slice(...)); offset += maxChunkSize; }
SplitStep ==
    /\ splPc = "loop"
    /\ moreToSplit(offset, Len(buffer))
    /\ chunks' = Append(chunks, slice(buffer, offset, offset + maxChunkSize))
    /\ offset' = offset + maxChunkSize
    /\ UNCHANGED <<buffer, maxChunkSize, splPc>>
    /\ UNCHANGED restSpl

\* return chunks;
SplitReturn ==
    /\ splPc = "loop"
    /\ ~moreToSplit(offset, Len(buffer))
    /\ splPc' = "done"
    /\ UNCHANGED <<buffer, maxChunkSize, chunks, offset>>
    /\ UNCHANGED restSpl

SplNext == SplitStep \/ SplitReturn
SpecSplit == SplInit /\ [][SplNext]_vars

\* The lengths of the chunks splitFile returns for a file of `len` bytes: the
\* same loop with the buffer reduced to its length.
RECURSIVE splitLengths(_, _, _)
splitLengths(len, chunkSize, off) ==
    IF off < len
    THEN <<Min(off + chunkSize, len) - off>> \o splitLengths(len, chunkSize, off + chunkSize)
    ELSE <<>>

\* C10: for every file content and positive chunk size, the chunks of
\* splitFile, concatenated in order, are the file's content: after every
\* iteration they are the bytes before the offset, and at the return the
\* whole content.
C10_SplitRoundTrip ==
    /\ Flatten(chunks) = SubSeq(buffer, 1, Min(offset, Len(buffer)))
    /\ splPc = "done" => Flatten(chunks) = buffer
C10_Witness ==
    /\ splPc = "done"
    /\ Len(chunks) >= 2
    /\ Len(chunks[Len(chunks)]) < maxChunkSize
    /\ \E i, j \in DOMAIN buffer : buffer[i] # buffer[j]

\* part_000: the destination limit and the chunk size of sendSplitBundle
MAX_FILE_SIZE == 50 * 1024 * 1024
MAX_SPLIT_SIZE == 45 * 1024 * 1024

CeilDiv(a, b) == (a + b - 1) \div b
ChunkSizes == [i \in DOMAIN chunks |-> Len(chunks[i])]

\* C11: for a file of S bytes and a chunk size C, splitFile returns
\* ceil(S/C) chunks, each but the last of exactly C bytes and the last of
\* 1..C bytes; the chunk sizes of a 120 MB file under the 45 MB chunk size
\* of sendSplitBundle are [45, 45, 30] MB.
C11_SplitSizes ==
    /\ \A i \in DOMAIN chunks :
          /\ i < Len(chunks) => Len(chunks[i]) = maxChunkSize
          /\ Len(chunks[i]) \in 1..maxChunkSize
    /\ splPc = "done" =>
          /\ Len(chunks) = CeilDiv(Len(buffer), maxChunkSize)
          /\ ChunkSizes = splitLengths(Len(buffer), maxChunkSize, 0)
    /\ splitLengths(120 * MB, MAX_SPLIT_SIZE, 0) = <<45 * MB, 45 * MB, 30 * MB>>
C11_Witness ==
    /\ splPc = "done"
    /\ Len(buffer) = 4
    /\ ChunkSizes \in {<<3, 1>>, <<2, 2>>}

(***************************************************************************)
(* Delivery of the bundle archives.                                        *)
(*   "uploader": part_000 main, sendSplitBundle, sendBundleZip             *)
(*   "bundle":   download.js uploadBundle, sendDocumentWithThumb           *)
(***************************************************************************)
\* Sizes of the bundle archives (bundle.size of metadata.json; the archive
\* uploadBundle builds from the chapter archives of a bundle).
ArtifactSizes == {20 * MB, 50 * MB, 50 * MB + 1, 60 * MB, 120 * MB}

\* What the destination answers to one sendDocument request of
\* sendDocumentWithThumb: data.ok, an error description, a description with
\* 'Too Many Requests', or fetch / res.json() throwing (network, timeout).
SendOutcomes == {"ok", "error", "rate_limited", "exception"}
\* data.description.match(/retry after (\d+)/)?.[1]: the declared seconds,
\* or no match
NoHint == [declared |-> FALSE, secs |-> 0]
Hint(secs) == [declared |-> TRUE, secs |-> secs]
RetryAfterHints == {NoHint, Hint(5), Hint(20)}

\* Math.min(retryAfter * 1000, 10000) with retryAfter = match?.[1] || 3
retryWaitUncapped(hint) == (IF hint.declared THEN hint.secs ELSE 3) * 1000
retryWait(hint) == Min((IF hint.declared THEN hint.secs ELSE 3) * 1000, 10000)
\* setTimeout(r, 2000 * attempt)
backoff(att) == 2000 * att
\* the condition of `for (let attempt = 1; attempt <= 3; attempt++)`
attemptAllowedOneMore(att) == att <= 4
attemptAllowed(att) == att <= 3

\* One iteration of the loop of sendDocumentWithThumb for an answer: what
\* the function does next ("return" data, "retry", "null" after the loop,
\* "throw") and the time it sleeps before that.
afterAttempt(att, outcome, hint) ==
    LET after == IF attemptAllowed(att + 1) THEN "retry" ELSE "null"
    IN  CASE outcome = "ok" ->
               [next |-> "return", attempt |-> att, wait |-> 0]
          [] outcome = "rate_limited" ->
               [next |-> after, attempt |-> att + 1, wait |-> retryWait(hint)]
          [] outcome = "error" ->
               [next |-> after, attempt |-> att + 1,
                wait |-> IF att < 3 THEN backoff(att) ELSE 0]
          [] outcome = "exception" ->
               IF att = 3
               THEN [next |-> "throw", attempt |-> att, wait |-> 0]
               ELSE [next |-> after, attempt |-> att + 1, wait |-> backoff(att)]

\* a document of a sendDocument request: the bundle's position, the bytes
\* sent, the size of the bundle archive and the part number (0: whole)
Document(index, size, artifact, part) ==
    [index |-> index, size |-> size, artifact |-> artifact, part |-> part]

\* every uploadBundle started so far has resolved (the await of Promise.all
\* returned)
batchSettled == \A k \in DOMAIN batch : batch[k].st # "sending"

\* telegramRequest: if (!json.ok) throw new Error(...)
telegramRequestNeverThrows(ok) == FALSE
telegramRequestThrows(ok) == ~ok

\* sendSplitBundle: sendBundleZip(chunkPath, zipName, parentId, i + 1, totalParts)
partNumberFromZero(i) == i
partNumber(i) == i + 1

\* the sleeps of the delivery loops: after a part (part_000 line 153), after
\* a bundle (part_000 line 217), between two batches (download.js line 423)
partPause == 1000
bundlePause == 1500
batchPause == 1000
\* download.js main: if (i + 2 < bundles.length) await ... setTimeout(r, 1000)
pauseDueNever(i, n) == FALSE
pauseDue(i, n) == i + 2 < n

SndInit ==
    /\ sndScript \in {"bundle", "uploader"}
    /\ sndQueue \in {q \in SeqsUpTo(ArtifactSizes, MaxArtifacts) : q # <<>>}
    /\ sndParts = <<>>
    /\ sndI = 0
    /\ rootMessageId \in IF sndScript = "bundle" THEN BOOLEAN ELSE {TRUE}
    /\ batch = <<>>
    /\ submitted = <<>>
    /\ answers = <<>>
    /\ removed = {}
    /\ sndSlept = 0
    /\ sndGap = 0
    /\ sndPc = "next"
    /\ IdleButSnd

\* part_000 main: if (fileSize > MAX_FILE_SIZE) ... else sendBundleZip(whole):
\* the sendDocument request is issued.
SendWhole ==
    /\ sndScript = "uploader"
    /\ sndPc = "next"
    /\ sndQueue # <<>>
    /\ ~(Head(sndQueue) > MAX_FILE_SIZE)
    /\ submitted' = Append(submitted, Document(sndI + 1, Head(sndQueue), Head(sndQueue), 0))
    /\ sndGap' = sndSlept
    /\ sndPc' = "wholeSent"
    /\ UNCHANGED <<sndScript, sndQueue, sndParts, sndI, rootMessageId, batch,
                   answers, removed, sndSlept>>
    /\ UNCHANGED restSnd

\* part_000 main: fileSize > MAX_FILE_SIZE; sendSplitBundle:
\* const chunks = splitFile(zipPath, MAX_SPLIT_SIZE);
StartSplit ==
    /\ sndScript = "uploader"
    /\ sndPc = "next"
    /\ sndQueue # <<>>
    /\ Head(sndQueue) > MAX_FILE_SIZE
    /\ sndParts' = splitLengths(Head(sndQueue), MAX_SPLIT_SIZE, 0)
    /\ sndPc' = "parts"
    /\ UNCHANGED <<sndScript, sndQueue, sndI, rootMessageId, batch, submitted,
                   answers, removed, sndSlept, sndGap>>
    /\ UNCHANGED restSnd

\* sendSplitBundle: one iteration of the loop over the chunks issues
\* sendBundleZip(chunkPath, zipName, parentId, i + 1, totalParts)
SendPart ==
    /\ sndScript = "uploader"
    /\ sndPc = "parts"
    /\ sndParts # <<>>
    /\ LET totalParts == Len(splitLengths(Head(sndQueue), MAX_SPLIT_SIZE, 0))
           i == totalParts - Len(sndParts)
       IN  submitted' = Append(submitted,
                               Document(sndI + 1, Head(sndParts), Head(sndQueue),
                                        partNumber(i)))
    /\ sndGap' = sndSlept
    /\ sndPc' = "partSent"
    /\ UNCHANGED <<sndScript, sndQueue, sndParts, sndI, rootMessageId, batch,
                   answers, removed, sndSlept>>
    /\ UNCHANGED restSnd

\* telegramRequest: the answer to the sendDocument request arrives.  Unless
\* it is ok telegramRequest throws, nothing on the way catches, and main's
\* catch logs the error and exits with status 1.  After an ok answer the
\* caller goes to its sleep.
RequestAnswered ==
    /\ sndScript = "uploader"
    /\ sndPc \in {"wholeSent", "partSent"}
    /\ \E ok \in BOOLEAN :
          /\ answers' = Append(answers, ok)
          /\ IF telegramRequestThrows(ok)
             THEN /\ sndPc' = "exit"
                  /\ UNCHANGED <<sndParts, sndSlept>>
             ELSE /\ sndSlept' = 0
                  /\ sndParts' = IF sndPc = "partSent" THEN Tail(sndParts) ELSE sndParts
                  /\ sndPc' = IF sndPc = "partSent" THEN "partPause" ELSE "bundlePause"
    /\ UNCHANGED <<sndScript, sndQueue, sndI, rootMessageId, batch, submitted,
                   removed, sndGap>>
    /\ UNCHANGED restSnd

\* sendSplitBundle: await new Promise(r => setTimeout(r, 1000)) ends; the
\* loop goes on with the next chunk or the function returns to main
PartPauseEnds ==
    /\ sndPc = "partPause"
    /\ sndSlept' = sndSlept + partPause
    /\ sndPc' = IF sndParts = <<>> THEN "bundlePause" ELSE "parts"
    /\ UNCHANGED <<sndScript, sndQueue, sndParts, sndI, rootMessageId, batch,
                   submitted, answers, removed, sndGap>>
    /\ UNCHANGED restSnd

\* part_000 main: await new Promise(r => setTimeout(r, 1500)) ends; the
\* loop goes on with the next bundle
BundlePauseEnds ==
    /\ sndPc = "bundlePause"
    /\ sndSlept' = sndSlept + bundlePause
    /\ sndQueue' = Tail(sndQueue)
    /\ sndI' = sndI + 1
    /\ sndPc' = "next"
    /\ UNCHANGED <<sndScript, sndParts, rootMessageId, batch, submitted, answers,
                   removed, sndGap>>
    /\ UNCHANGED restSnd

\* download.js main, when the await of Promise.all returns for the batch
\* that started at loop index i: the pause, or the next iteration
afterBatch(i, n) == IF pauseDue(i, n) THEN "pause" ELSE "next"

\* download.js main: const batch = bundles.slice(i, i + 2);
\* await Promise.all(batch.map((b, idx) => uploadBundle(b, i + idx)));
\* the next batch starts when every uploadBundle of this one has resolved,
\* at once or, after the pause, in the turn in which the timer of line 423
\* fires.  uploadBundle sends only if (rootMessageId); otherwise it removes
\* the archive and returns.
StartBatch ==
    /\ sndScript = "bundle"
    /\ sndPc \in {"next", "pause"}
    /\ sndQueue # <<>>
    /\ batchSettled
    /\ LET n == Min(2, Len(sndQueue))
           new == [k \in 1..n |->
                      [index |-> sndI + k, size |-> sndQueue[k], attempt |-> 1,
                       st |-> IF rootMessageId THEN "sending" ELSE "skipped"]]
       IN  /\ batch' = batch \o new
           /\ sndQueue' = SubSeq(sndQueue, n + 1, Len(sndQueue))
           /\ sndI' = sndI + n
           /\ sndGap' = IF sndPc = "pause" THEN sndSlept + batchPause ELSE sndSlept
           /\ IF rootMessageId
              THEN /\ sndSlept' = sndGap'
                   /\ sndPc' = "next"
                   /\ UNCHANGED removed
              ELSE /\ removed' = removed \cup {sndI + k : k \in 1..n}
                   /\ sndSlept' = 0
                   /\ sndPc' = afterBatch(sndI, sndI + Len(sndQueue))
    /\ UNCHANGED <<sndScript, sndParts, rootMessageId, submitted, answers>>
    /\ UNCHANGED restSnd

\* download.js uploadBundle: the bundle archive goes to sendDocumentWithThumb
\* as it is.  One attempt of its loop for the upload in slot k:
\* the request is sent and answered.  data.ok returns; an error answer or a
\* rate-limit answer sleeps and goes on to the next attempt, and the function
\* returns null after the third; an exception of the third attempt is
\* rethrown, Promise.all rejects and main's catch exits.  When
\* sendDocumentWithThumb returns, whatever it returns, uploadBundle removes
\* the archive (rmSync, line 417); when this was the last upload of the
\* batch main goes on after Promise.all.
SendAttempt(k) ==
    /\ sndScript = "bundle"
    /\ sndPc = "next"
    /\ k \in DOMAIN batch
    /\ batch[k].st = "sending"
    /\ submitted' = Append(submitted, Document(batch[k].index, batch[k].size, batch[k].size, 0))
    /\ \E outcome \in SendOutcomes, hint \in RetryAfterHints :
          LET r == afterAttempt(batch[k].attempt, outcome, hint)
              first == CHOOSE j \in DOMAIN batch :
                           batch[j].index = 2 * ((batch[k].index - 1) \div 2) + 1
          IN  /\ answers' = Append(answers, outcome = "ok")
              /\ batch' = [batch EXCEPT ![k].attempt = r.attempt,
                                        ![k].st = CASE r.next = "retry" -> "sending"
                                                    [] r.next = "return" -> "ok"
                                                    [] r.next = "null" -> "null"
                                                    [] r.next = "throw" -> "thrown"]
              /\ removed' = IF r.next \in {"return", "null"}
                            THEN removed \cup {batch[k].index}
                            ELSE removed
              /\ IF r.next = "throw"
                 THEN sndPc' = "exit" /\ sndSlept' = sndSlept
                 ELSE IF \A j \in DOMAIN batch : j # k => batch[j].st # "sending"
                         /\ r.next # "retry"
                      THEN /\ sndSlept' = 0
                           /\ sndPc' = afterBatch(batch[first].index - 1, sndI + Len(sndQueue))
                      ELSE UNCHANGED <<sndSlept, sndPc>>
    /\ UNCHANGED <<sndScript, sndQueue, sndParts, sndI, rootMessageId, sndGap>>
    /\ UNCHANGED restSnd

\* every bundle has been handled
SendDone ==
    /\ sndPc = "next"
    /\ sndQueue = <<>>
    /\ batchSettled
    /\ sndPc' = "done"
    /\ UNCHANGED <<sndScript, sndQueue, sndParts, sndI, rootMessageId, batch, submitted,
                   answers, removed, sndSlept, sndGap>>
    /\ UNCHANGED restSnd

SndNext ==
    \/ SendWhole \/ StartSplit \/ SendPart \/ RequestAnswered
    \/ PartPauseEnds \/ BundlePauseEnds
    \/ StartBatch \/ (\E k \in DOMAIN batch : SendAttempt(k))
    \/ SendDone
SpecSend == SndInit /\ [][SndNext]_vars

\* The delivery loop of download.js alone, with enough bundles of one size
\* for several batches.
BatchInit ==
    /\ sndScript = "bundle"
    /\ sndQueue \in {q \in SeqsUpTo({20 * MB}, MaxBundles) : q # <<>>}
    /\ sndParts = <<>>
    /\ sndI = 0
    /\ rootMessageId \in BOOLEAN
    /\ batch = <<>>
    /\ submitted = <<>>
    /\ answers = <<>>
    /\ removed = {}
    /\ sndSlept = 0
    /\ sndGap = 0
    /\ sndPc = "next"
    /\ IdleButSnd
BatchNext == StartBatch \/ (\E k \in DOMAIN batch : SendAttempt(k)) \/ SendDone
SpecBatch == BatchInit /\ [][BatchNext]_vars

\* C9: an artifact larger than the destination limit is never submitted
\* whole, only as chunks, so every document submitted to the destination
\* is at most the destination limit.
C9_NoOversizeDocument ==
    \A n \in DOMAIN submitted :
        /\ submitted[n].size <= MAX_FILE_SIZE
        /\ submitted[n].artifact > MAX_FILE_SIZE => submitted[n].part >= 1

(***************************************************************************)
(* One call of sendDocumentWithThumb (download.js), with the time it       *)
(* sleeps between its attempts.                                            *)
(***************************************************************************)
RtInit ==
    /\ attempt = 1
    /\ sendLog = <<>>
    /\ result = "pending"
    /\ IdleButRt

\* One iteration of `for (let attempt = 1; attempt <= 3; attempt++)`: the
\* request is sent and answered, and the function returns, throws, or sleeps
\* and goes on.
Attempt ==
    /\ result = "pending"
    /\ \E outcome \in SendOutcomes, hint \in RetryAfterHints :
          LET r == afterAttempt(attempt, outcome, hint)
          IN  /\ outcome # "rate_limited" => hint = NoHint
              /\ sendLog' = Append(sendLog, [outcome |-> outcome, hint |-> hint, wait |-> r.wait])
              /\ attempt' = r.attempt
              /\ result' = CASE r.next = "retry" -> "pending"
                             [] r.next = "return" -> "data"
                             [] r.next = "null" -> "null"
                             [] r.next = "throw" -> "thrown"
    /\ UNCHANGED restRt

RtNext == Attempt
SpecRetry == RtInit /\ [][RtNext]_vars

RECURSIVE SumWaits(_)
SumWaits(log) == IF log = <<>> THEN 0 ELSE Head(log).wait + SumWaits(Tail(log))
RateLimited(secs) == [outcome |-> "rate_limited", hint |-> Hint(secs), wait |-> secs * 1000]

\* C13: after an answer of 'too many requests' the sender sleeps the
\* declared duration, capped at 10 s, before it goes on, and the answer
\* counts as one of the 3 attempts: there is never a fourth request, and
\* after three such answers the call returns null.  Attempts 1 and 2
\* rate-limited with 5 s declared and attempt 3 answered ok make 3 attempts,
\* the result data and a total sleep of at least 10 s.
C13_RateLimitWaitCounts ==
    /\ Len(sendLog) <= 3
    /\ result = "pending" => attempt = Len(sendLog) + 1
    /\ \A n \in DOMAIN sendLog :
          (sendLog[n].outcome = "rate_limited" /\ sendLog[n].hint.declared) =>
              sendLog[n].wait = IF sendLog[n].hint.secs <= 10
                                THEN sendLog[n].hint.secs * 1000
                                ELSE 10000
    /\ (\A n \in 1..3 : n \in DOMAIN sendLog /\ sendLog[n].outcome = "rate_limited")
          => result = "null"
    /\ (Len(sendLog) = 3 /\ SubSeq(sendLog, 1, 2) = <<RateLimited(5), RateLimited(5)>>
                         /\ sendLog[3].outcome = "ok")
          => (result = "data" /\ SumWaits(sendLog) >= 10000)
C13_Witness ==
    /\ Len(sendLog) = 3
    /\ SubSeq(sendLog, 1, 2) = <<RateLimited(5), RateLimited(5)>>
    /\ sendLog[3].outcome = "ok"
    /\ result = "data"

\* the requests sent for one document (a bundle archive, or a part of one)
RequestsFor(index, part) ==
    {n \in DOMAIN submitted : submitted[n].index = index /\ submitted[n].part = part}

\* C12: delivering one artifact through sendDocumentWithThumb sends at most
\* 3 requests to the destination, whatever the destination answers: an
\* upload that is still sending is at attempt 1, 2 or 3, and no document is
\* requested more than 3 times.
C12_AtMostMaxAttempts ==
    /\ \A k \in DOMAIN batch : batch[k].st = "sending" => batch[k].attempt \in 1..3
    /\ \A n \in DOMAIN submitted :
          Cardinality(RequestsFor(submitted[n].index, submitted[n].part)) <= 3
C12_Witness ==
    /\ sndScript = "bundle"
    /\ sndPc = "done"
    /\ \E k \in DOMAIN batch :
          /\ batch[k].st = "null"
          /\ Cardinality(RequestsFor(batch[k].index, 0)) = 3
    /\ \E k \in DOMAIN batch :
          /\ batch[k].st = "ok"
          /\ Cardinality(RequestsFor(batch[k].index, 0)) = 3

\* C14: a delivery that fails on every allowed attempt, by error answers,
\* rate-limit answers or exceptions, ends as a failure of that artifact (the
\* call returns null) and the run goes on with the remaining bundles: no
\* upload ends by throwing and the run never exits during delivery.
C14_FailureContained ==
    sndScript = "bundle" =>
        /\ \A k \in DOMAIN batch : batch[k].st # "thrown"
        /\ sndPc # "exit"

\* the uploadBundle calls whose sendDocumentWithThumb returned null: every
\* allowed attempt was answered with a failure
PermanentFailures == {k \in DOMAIN batch : batch[k].st = "null"}

\* C23: the artifacts whose delivery ended in a permanent failure during the
\* primary pass are submitted again in a re-drive pass before the run ends:
\* when the delivery is over, each of them has been requested more often
\* than the attempts of its primary delivery.
C23_FailuresRedriven ==
    (sndScript = "bundle" /\ sndPc = "done") =>
        \A k \in PermanentFailures :
            Cardinality(RequestsFor(batch[k].index, 0)) > batch[k].attempt - 1

\* the documents submitted for the parts of the artifact at a position
PartRequests(index) ==
    {n \in DOMAIN submitted : submitted[n].index = index /\ submitted[n].part >= 1}
docsInFlight == Len(submitted) - Len(answers)

\* C25: the parts of a split artifact are numbered 1..N and submitted one
\* after the other in that order: the first document of a split artifact is
\* part 1, part i+1 is submitted right after part i was answered ok and
\* after a pause of at least 1000 ms, the numbers stay within 1..N, and at
\* most one document is in flight.
C25_PartsSequential ==
    sndScript = "uploader" =>
        /\ docsInFlight \in {0, 1}
        /\ \A n \in DOMAIN submitted :
              LET d == submitted[n]
                  N == CeilDiv(d.artifact, MAX_SPLIT_SIZE)
              IN  d.artifact > MAX_FILE_SIZE =>
                    /\ d.part \in 1..N
                    /\ d.part = 1 => (n = 1 \/ submitted[n - 1].index # d.index)
                    /\ d.part > 1 =>
                          /\ n > 1
                          /\ submitted[n - 1].index = d.index
                          /\ submitted[n - 1].part = d.part - 1
                          /\ answers[n - 1]
        /\ (sndPc = "partSent" /\ submitted[Len(submitted)].part > 1) => sndGap >= partPause
        /\ \A index \in 1..sndI :
              \A n \in PartRequests(index) :
                  Cardinality(PartRequests(index)) = CeilDiv(submitted[n].artifact, MAX_SPLIT_SIZE)
C25_Witness ==
    /\ sndScript = "uploader"
    /\ sndPc = "partSent"
    /\ submitted[Len(submitted)].part = 3
    /\ submitted[Len(submitted)].artifact = 120 * MB
    /\ Cardinality(PartRequests(submitted[Len(submitted)].index)) = 3
    /\ sndGap = partPause

Delivered(index) == \E k \in DOMAIN batch : batch[k].index = index /\ batch[k].st = "ok"

\* C28: the upload step removes a bundle's archive exactly when the bundle's
\* delivery has succeeded: at once after the ok answer, and not while the
\* delivery has not succeeded.
C28_ArchiveRemovedIffDelivered ==
    sndScript = "bundle" =>
        \A index \in 1..sndI : (index \in removed <=> Delivered(index))

\* the uploadBundle calls that have not resolved
InFlightDeliveries == {k \in DOMAIN batch : batch[k].st = "sending"}
batchOf(k) == (k - 1) \div 2

\* C30: at most 2 bundle deliveries are in flight, the deliveries in flight
\* are all of the latest batch (every delivery of the batches before has
\* finished), and every batch after the first started after main had slept
\* at least 1000 ms since the end of the batch before.
C30_BatchedDelivery ==
    /\ Cardinality(InFlightDeliveries) <= 2
    /\ \A k \in InFlightDeliveries : batchOf(k) = batchOf(Len(batch))
    /\ Len(batch) > 2 => sndGap >= batchPause
C30_Witness ==
    /\ Len(batch) = 3
    /\ batch[1].st = "ok"
    /\ batch[2].st = "null"
    /\ batch[3].st = "sending"
    /\ batch[3].attempt = 2
    /\ sndGap = batchPause

\* C36: when the run completes normally (the delivery loop has ended
\* without an exception), every bundle has been submitted to the destination
\* at least once.
C36_EveryBundleSubmitted ==
    (sndScript = "bundle" /\ sndPc = "done") =>
        \A index \in 1..sndI : \E n \in DOMAIN submitted : submitted[n].index = index

\* `${bundles.length} bundles uploaded` in the final edit (line 431)
reportedUploaded == sndI + Len(sndQueue)

\* C37: the number of bundles the final status update reports as uploaded
\* is the number of bundles whose delivery succeeded.
C37_ReportedCountIsDelivered ==
    (sndScript = "bundle" /\ sndPc = "done" /\ rootMessageId) =>
        reportedUploaded = Cardinality({index \in 1..sndI : Delivered(index)})

(***************************************************************************)
(* The chapter loop of download.js (main, lines 289-376) with its catalog  *)
(* calls (getFeed, Chapter.get, getReadablePages) and the page downloads   *)
(* of downloadPages.  The downloads of a batch are counted by the fetch    *)
(* they are in; the pages before the batch are downloaded, the pages after *)
(* it are not yet requested.                                               *)
(***************************************************************************)
MAX_CONCURRENT_PAGES == 8
\* await new Promise(r => setTimeout(r, 100)) at the end of an iteration
chapterPause == 100

\* `await call`: main goes on only when the call has returned, so the call
\* is no longer in flight when the next statement runs
inFlightWithoutAwait(n) == n
inFlightAfterReturn(n) == n - 1

\* await Promise.all(batch.map(...)): resolved when every downloadPage of the
\* batch has returned true (t1, t2: the downloads still in their first and
\* second fetch; size: the length of the batch)
batchResolvedAny(t1, t2, size) == t1 + t2 < size
batchResolved(t1, t2, size) == t1 + t2 = 0

batchSize(i, n) == Min(MAX_CONCURRENT_PAGES, n - i)

\* downloadPage, in the catch of its fetch number i (0 or 1):
\* if (i === 1) throw new Error(`Failed page ${pageIdx + 1}`);
lastFetchNever(i) == FALSE
lastFetch(i) == i = 1

\* downloadPages at `i < pages.length` with loop variable i: the batch at i is
\* mapped to downloadPage calls, which all start their first fetch; past the
\* last batch downloadPages returns and main calls createZip.
ContinueDownload(i, n, st, t1, t2) ==
    /\ pageI' = i
    /\ try2' = t2
    /\ IF i < n
       THEN /\ try1' = t1 + batchSize(i, n)
            /\ started' = st + batchSize(i, n)
            /\ fetches' = fetches + batchSize(i, n)
            /\ pgPc' = "downloadPages"
       ELSE /\ try1' = t1
            /\ started' = st
            /\ fetches' = fetches
            /\ pgPc' = "createZip"

\* a download of the current batch returned true, leaving t1 and t2 running
PageSettled(t1, t2) ==
    IF pgPc = "downloadPages" /\ batchResolved(t1, t2, batchSize(pageI, pages))
    THEN ContinueDownload(pageI + MAX_CONCURRENT_PAGES, pages, started, t1, t2)
    ELSE try1' = t1 /\ try2' = t2 /\ UNCHANGED <<pgPc, pageI, started, fetches>>

PgInit ==
    /\ pgPc = "feed"
    /\ chapterCount \in 1..MaxPageChapters
    /\ chapterNo = 0
    /\ pages = 0
    /\ pageI = 0
    /\ started = 0
    /\ try1 = 0
    /\ try2 = 0
    /\ orphans = 0
    /\ chapSt = "none"
    /\ catalogInFlight = 0
    /\ slept = 0
    /\ lastGap = -1
    /\ chapDirs = {}
    /\ fetches = 0
    /\ exhausted = 0
    /\ IdleButPg

\* const chapters = await manga.getFeed({...}): the call is issued
GetFeed ==
    /\ pgPc = "feed"
    /\ pgPc' = "getFeed"
    /\ catalogInFlight' = catalogInFlight + 1
    /\ slept' = 0
    /\ UNCHANGED <<chapDirs, chapterCount, chapterNo, pages, pageI, started, try1, try2, orphans,
                   chapSt, lastGap>>
    /\ UNCHANGED <<fetches, exhausted>>
    /\ UNCHANGED restPg

\* getFeed returns.  offset becomes 500, so the loop ends after the first
\* page; an empty selection exits (line 307) and an exception reaches main's
\* catch.  Otherwise main goes on to post the info message.
GetFeedReturns ==
    /\ pgPc = "getFeed"
    /\ catalogInFlight' = inFlightAfterReturn(catalogInFlight)
    /\ \E answer \in {"chapters", "none", "throws"} :
          pgPc' = IF answer = "chapters" THEN "info" ELSE "exit"
    /\ UNCHANGED <<chapDirs, chapterCount, chapterNo, pages, pageI, started, try1, try2, orphans,
                   chapSt, slept, lastGap>>
    /\ UNCHANGED <<fetches, exhausted>>
    /\ UNCHANGED restPg

\* the first iteration of the chapter loop: mkdirSync(chapDir), and
\* const fullChapter = await Chapter.get(chapter.id) is issued
ChapterGet ==
    /\ pgPc = "info"
    /\ pgPc' = "chapterGet"
    /\ chapterNo' = 1
    /\ catalogInFlight' = catalogInFlight + 1
    /\ lastGap' = slept
    /\ slept' = 0
    /\ chapDirs' = chapDirs \cup {1}
    /\ UNCHANGED <<chapterCount, pages, pageI, started, try1, try2, orphans, chapSt>>
    /\ UNCHANGED <<fetches, exhausted>>
    /\ UNCHANGED restPg

\* Chapter.get returns and fullChapter.getReadablePages({ useDataSaver }) is
\* issued in the same turn; an exception goes to the chapter's catch
ChapterGetReturns ==
    /\ pgPc = "chapterGet"
    /\ \E ok \in BOOLEAN :
          IF ok
          THEN /\ catalogInFlight' = inFlightAfterReturn(catalogInFlight) + 1
               /\ lastGap' = slept
               /\ slept' = 0
               /\ pgPc' = "getReadablePages"
               /\ chapSt' = chapSt
          ELSE /\ catalogInFlight' = inFlightAfterReturn(catalogInFlight)
               /\ UNCHANGED <<lastGap, slept>>
               /\ pgPc' = "pause"
               /\ chapSt' = "failed"
    /\ UNCHANGED <<chapDirs, chapterCount, chapterNo, pages, pageI, started, try1, try2, orphans>>
    /\ UNCHANGED <<fetches, exhausted>>
    /\ UNCHANGED restPg

\* getReadablePages returns the page list and downloadPages(pages, chapDir)
\* starts its first batch; an exception goes to the chapter's catch
GetReadablePagesReturns ==
    /\ pgPc = "getReadablePages"
    /\ catalogInFlight' = inFlightAfterReturn(catalogInFlight)
    /\ \E ok \in BOOLEAN :
          IF ok
          THEN /\ \E n \in 0..MaxPages :
                     /\ pages' = n
                     /\ ContinueDownload(0, n, 0, try1, try2)
               /\ chapSt' = chapSt
          ELSE /\ UNCHANGED <<pages, pageI, started, try1, try2, fetches>>
               /\ pgPc' = "pause"
               /\ chapSt' = "failed"
    /\ UNCHANGED <<chapDirs, chapterCount, chapterNo, orphans, slept, lastGap, exhausted>>
    /\ UNCHANGED restPg

\* downloadPage: the first fetch of a page succeeds and it returns true
PageOk1 ==
    /\ try1 > 0
    /\ PageSettled(try1 - 1, try2)
    /\ UNCHANGED <<chapDirs, chapterCount, chapterNo, pages, orphans, chapSt, catalogInFlight,
                   slept, lastGap>>
    /\ UNCHANGED exhausted
    /\ UNCHANGED restPg

\* downloadPage: the first fetch fails (i = 0), it sleeps 200 ms and fetches
\* the page again
PageRetry ==
    /\ try1 > 0
    /\ ~lastFetch(0)
    /\ try1' = try1 - 1
    /\ try2' = try2 + 1
    /\ UNCHANGED <<chapDirs, pgPc, chapterCount, chapterNo, pages, pageI, started, orphans, chapSt,
                   catalogInFlight, slept, lastGap>>
    /\ fetches' = fetches + 1
    /\ UNCHANGED exhausted
    /\ UNCHANGED restPg

\* downloadPage: the second fetch succeeds
PageOk2 ==
    /\ try2 > 0
    /\ PageSettled(try1, try2 - 1)
    /\ UNCHANGED <<chapDirs, chapterCount, chapterNo, pages, orphans, chapSt, catalogInFlight,
                   slept, lastGap>>
    /\ UNCHANGED exhausted
    /\ UNCHANGED restPg

\* downloadPage: the second fetch fails (i = 1) and it throws `Failed page`
\* (a loop that ended without a throw would return undefined, which settles
\* the download like a success):
\* Promise.all rejects at once, downloadPages throws and the chapter's catch
\* runs, while the other downloads of the batch go on with nobody awaiting
\* them
PageFail ==
    /\ pgPc = "downloadPages"
    /\ try2 > 0
    /\ exhausted' = exhausted + 1
    /\ IF lastFetch(1)
       THEN /\ orphans' = orphans + try1 + (try2 - 1)
            /\ try1' = 0
            /\ try2' = 0
            /\ pgPc' = "pause"
            /\ chapSt' = "failed"
            /\ UNCHANGED <<pageI, started, fetches>>
       ELSE /\ PageSettled(try1, try2 - 1)
            /\ UNCHANGED <<orphans, chapSt>>
    /\ UNCHANGED <<chapDirs, chapterCount, chapterNo, pages, catalogInFlight, slept, lastGap>>
    /\ UNCHANGED restPg

\* a download of an abandoned batch ends, by success or by its second failure
OrphanEnds ==
    /\ orphans > 0
    /\ orphans' = orphans - 1
    /\ UNCHANGED <<chapDirs, pgPc, chapterCount, chapterNo, pages, pageI, started, try1, try2,
                   chapSt, catalogInFlight, slept, lastGap>>
    /\ UNCHANGED <<fetches, exhausted>>
    /\ UNCHANGED restPg

\* const zipSize = await createZip(chapDir, chapZipPath) returns, the
\* archive is put in the open bundle and chapDir is removed (line 369), or
\* it throws into the chapter's catch, which only logs the error
CreateZipEnds ==
    /\ pgPc = "createZip"
    /\ pgPc' = "pause"
    /\ \E ok \in BOOLEAN :
          /\ chapSt' = IF ok THEN "archived" ELSE "failed"
          /\ chapDirs' = IF ok THEN chapDirs \ {chapterNo} ELSE chapDirs
    /\ UNCHANGED <<chapterCount, chapterNo, pages, pageI, started, try1, try2, orphans,
                   catalogInFlight, slept, lastGap>>
    /\ UNCHANGED <<fetches, exhausted>>
    /\ UNCHANGED restPg

\* the 100 ms sleep at the end of the iteration is over: the next iteration
\* makes its chapDir and issues Chapter.get for the next chapter, or the
\* loop ends
PauseEnds ==
    /\ pgPc = "pause"
    /\ IF chapterNo < chapterCount
       THEN /\ chapterNo' = chapterNo + 1
            /\ pgPc' = "chapterGet"
            /\ catalogInFlight' = catalogInFlight + 1
            /\ lastGap' = slept + chapterPause
            /\ slept' = 0
            /\ pages' = 0
            /\ pageI' = 0
            /\ started' = 0
            /\ chapSt' = "none"
            /\ chapDirs' = chapDirs \cup {chapterNo + 1}
            /\ fetches' = 0
            /\ exhausted' = 0
       ELSE /\ pgPc' = "done"
            /\ slept' = slept + chapterPause
            /\ UNCHANGED <<chapterNo, catalogInFlight, lastGap, pages, pageI, started, chapSt,
                           chapDirs, fetches, exhausted>>
    /\ UNCHANGED <<chapterCount, try1, try2, orphans>>
    /\ UNCHANGED restPg

PgNext ==
    \/ GetFeed \/ GetFeedReturns
    \/ ChapterGet \/ ChapterGetReturns \/ GetReadablePagesReturns
    \/ PageOk1 \/ PageRetry \/ PageOk2 \/ PageFail \/ OrphanEnds
    \/ CreateZipEnds \/ PauseEnds
SpecPages == PgInit /\ [][PgNext]_vars

\* page downloads in flight
InFlight == try1 + try2 + orphans

\* C16: at no time are more than MAX_CONCURRENT_PAGES page downloads in
\* flight, over every interleaving of page completions and failures and
\* across consecutive chapters.
C16_AtMostMaxInFlight == InFlight <= MAX_CONCURRENT_PAGES

\* C17: every page of a chapter is attempted: once the chapter's iteration
\* is over and every download that was started has ended, downloadPage has
\* been called for each page of the chapter's page list.
C17_EveryPageAttempted ==
    (pgPc \in {"pause", "done"} /\ InFlight = 0) => started = pages

\* C18: when createZip starts for a chapter, every page of that chapter has
\* been requested and no download of that chapter is pending or in flight.
C18_ZipAfterAllPages ==
    pgPc = "createZip" => (try1 = 0 /\ try2 = 0 /\ started = pages)
C18_Witness ==
    /\ pgPc = "createZip"
    /\ pages > MAX_CONCURRENT_PAGES
    /\ pageI >= pages
    /\ orphans > 0

\* C19: at no time are two catalog calls (getFeed, Chapter.get,
\* getReadablePages) in flight.
C19_CatalogCallsSerialized == catalogInFlight \in {0, 1}
C19_Witness ==
    /\ pgPc = "getReadablePages"
    /\ catalogInFlight = 1
    /\ chapterNo = 2
    /\ orphans > 0

\* the interval the script keeps between two iterations of the chapter loop
minInterval == chapterPause

\* C20: every two successive catalog calls are separated by at least the
\* minimum interval: when a catalog call is issued, main has slept at least
\* that long since it issued the previous one.
C20_CatalogCallsSpaced == lastGap = -1 \/ lastGap >= minInterval

\* C24: when a chapter has failed, its directory with the page files
\* written so far is discarded before main proceeds to the next chapter: a
\* chapter directory that exists is that of the chapter in progress.
C24_FailedChapterDiscarded ==
    \A c \in chapDirs : c = chapterNo /\ pgPc # "done"

\* The steps the event loop guarantees: main's own statements and its
\* timers.  The answers of the catalog and of the asset host are not among
\* them: fetch(pageUrl) (line 181) is called without a timeout and without
\* an abort signal, so nothing in the script ends a fetch that the host
\* never answers.
FairPages ==
    /\ SpecPages
    /\ WF_vars(GetFeed)
    /\ WF_vars(ChapterGet)
    /\ WF_vars(CreateZipEnds)
    /\ WF_vars(PauseEnds)

\* C29: every network call reaches a terminal state, so a host that never
\* answers cannot block the run: every call of downloadPages comes to an end
\* (it returns or throws).
C29_EveryCallEnds == (pgPc = "downloadPages") ~> (pgPc # "downloadPages")

\* the pages of the current chapter that downloadPages has not requested yet
PendingPages == pages - started

\* C31: a waiting page download starts as soon as fewer than
\* MAX_CONCURRENT_PAGES downloads are in flight: while downloadPages runs,
\* there is no state in which a page of the chapter is still pending and a
\* slot is free.
C31_FreeSlotAdmitsPage ==
    ~(pgPc = "downloadPages" /\ PendingPages > 0 /\ InFlight < MAX_CONCURRENT_PAGES)

\* C38: downloadPages fetches each page at most 2 times, and once a page
\* has failed both fetches the chapter has failed (main is past its catch)
\* and the pages of the later batches of the chapter are never requested:
\* the pages requested are those of the batches up to the failed one.
C38_TwoFetchesThenChapterFails ==
    /\ fetches <= 2 * started
    /\ exhausted > 0 =>
          /\ chapSt = "failed"
          /\ pgPc \in {"pause", "done"}
          /\ try1 = 0 /\ try2 = 0
          /\ started = pageI + batchSize(pageI, pages)
C38_Witness ==
    /\ exhausted = 1
    /\ chapSt = "failed"
    /\ pgPc = "pause"
    /\ started < pages
    /\ fetches = 2 * started
    /\ orphans > 0

\* C35: when main starts the next chapter (its Chapter.get is issued) or
\* leaves the chapter loop to assemble the bundles, no page download of an
\* earlier chapter is still in flight.
C35_NoDownloadOutlivesChapter ==
    ((pgPc = "chapterGet" /\ chapterNo > 1) \/ pgPc = "done") => orphans = 0

(***************************************************************************)
(* One run of main, from its environment to its exit: the bundling script  *)
(* (download.js lines 236-447), the per-chapter script (download.js lines  *)
(* 622-838) and the per-chapter script of part_002 (lines 127-269).  An    *)
(* iteration of the chapter loop is two steps (its progress edit, its      *)
(* download and archive); the uploads are counted by the documents sent.   *)
(***************************************************************************)
Environments == [mangaInput : BOOLEAN, chatId : BOOLEAN, token : BOOLEAN]

\* the checks before the try of main: lines 242-244 exit unless all three
\* are set; line 630 (part_002: line 133) exits unless MANGA_INPUT is set
requiredPresentInputOnly(s, e) == e.mangaInput
requiredPresent(s, e) == e.mangaInput /\ (s = "bundle" => e.chatId /\ e.token)
\* line 628: const useTelegram = !!(telegramChatId && telegramToken);
\* line 318 and line 442: if (telegramChatId && process.runEnv.TELEGRAM_BOT_TOKEN)
useTelegram(e) == e.chatId /\ e.token

\* uploadBundle, line 405: if (rootMessageId) { ... sendDocumentWithThumb ... }
submitsDocumentAlways(posted) == TRUE
submitsDocument(posted) == posted

\* what a call of the destination API can come to: an ok answer, an answer
\* that is not ok, or an exception of fetch
ApiOutcomes == {"ok", "rejected", "throws"}

\* the post of the info message: sendPhoto and sendText of the bundling
\* script return null on any failure (lines 117-120, 138-139); sendText of
\* the per-chapter script throws on an answer that is not ok (line 479) and
\* the handler of line 707 then assigns to the const useTelegram (line 709),
\* which throws a TypeError into main's catch; sendText of part_002 returns
\* null on an answer that is not ok (line 26) and lets an exception of fetch
\* through to main's catch.
infoPostThrows(s, outcome) ==
    CASE s = "bundle" -> FALSE
      [] s = "chapter" -> outcome # "ok"
      [] s = "part_002" -> outcome = "throws"

\* editMessageText: the bundling script swallows every failure (lines
\* 144-150); the per-chapter script calls it inside try blocks (lines
\* 728-735, 795-805); part_002 calls it without a try around it (lines 207,
\* 251), outside the try of the chapter, so an exception of fetch reaches
\* main's catch.  No script looks at the answer.
editThrows(s, outcome) == s = "part_002" /\ outcome = "throws"

RunInit ==
    /\ runScript \in {"bundle", "chapter", "part_002"}
    /\ runEnv \in Environments
    /\ runPc = "start"
    /\ calls = {}
    /\ hasCover = FALSE
    /\ infoPosted = FALSE
    /\ notifications = 0
    /\ workDir = FALSE
    /\ exitStatus = -1
    /\ pending = 0
    /\ archived = 0
    /\ docs = 0
    /\ infoFailed = FALSE
    /\ editFailed = FALSE
    /\ IdleButRun

\* main's catch (download.js lines 439-446, 819-837; part_002 lines 260-268)
\* after an action that has issued the calls c: the failure notification is
\* sent with sendText if the destination is configured, and process.exit(1)
\* follows.
Catch(c) ==
    IF useTelegram(runEnv)
    THEN /\ runPc' = "notify"
         /\ notifications' = notifications + 1
         /\ calls' = c \cup {"destination"}
         /\ exitStatus' = exitStatus
    ELSE /\ runPc' = "exited"
         /\ exitStatus' = 1
         /\ notifications' = notifications
         /\ calls' = c

\* main up to its first await: the required settings are checked, a missing
\* one ends the process with process.exit(1); otherwise Manga.get is called.
Start ==
    /\ runPc = "start"
    /\ IF requiredPresent(runScript, runEnv)
       THEN /\ runPc' = "mangaGet"
            /\ calls' = calls \cup {"catalog"}
            /\ exitStatus' = exitStatus
       ELSE /\ runPc' = "exited"
            /\ exitStatus' = 1
            /\ calls' = calls
    /\ UNCHANGED <<runScript, runEnv, hasCover, infoPosted, notifications, workDir>>
    /\ UNCHANGED <<pending, archived, docs, infoFailed, editFailed>>
    /\ UNCHANGED restRun

\* Manga.get returns a manga, returns nothing (`Manga not found` is thrown)
\* or throws.  The bundling script creates workDir (line 267) and downloads
\* the cover if the manga has one; then the feed is requested.
MangaGetReturns ==
    /\ runPc = "mangaGet"
    /\ \E outcome \in {"manga", "null", "throws"}, coverUrl \in BOOLEAN :
          IF outcome = "manga"
          THEN /\ workDir' = (runScript = "bundle")
               /\ IF runScript = "bundle" /\ coverUrl
                  THEN runPc' = "cover" /\ calls' = calls \cup {"asset"}
                  ELSE runPc' = "getFeed" /\ calls' = calls \cup {"catalog"}
               /\ UNCHANGED <<notifications, exitStatus>>
          ELSE Catch(calls) /\ workDir' = workDir
    /\ UNCHANGED <<runScript, runEnv, hasCover, infoPosted>>
    /\ UNCHANGED <<pending, archived, docs, infoFailed, editFailed>>
    /\ UNCHANGED restRun

\* downloadCover returns the path or, after 3 failed attempts, null; it
\* never throws.  The feed is requested.
CoverReturns ==
    /\ runPc = "cover"
    /\ hasCover' \in BOOLEAN
    /\ runPc' = "getFeed"
    /\ calls' = calls \cup {"catalog"}
    /\ UNCHANGED <<runScript, runEnv, infoPosted, notifications, workDir, exitStatus>>
    /\ UNCHANGED <<pending, archived, docs, infoFailed, editFailed>>
    /\ UNCHANGED restRun

\* The feed has been read and selectChapters has run.  An empty selection
\* ends the process with process.exit(1) (lines 307, 682-685; part_002 lines
\* 173-176).  Otherwise the chapter directory is created under workDir and
\* the manga info is posted if the destination is configured; without it
\* (per-chapter scripts only) the chapter loop starts.
RunGetFeedReturns ==
    /\ runPc = "getFeed"
    /\ \E outcome \in {"chapters", "none", "throws"} :
          CASE outcome = "throws" -> Catch(calls) /\ UNCHANGED <<workDir, pending>>
            [] outcome = "none" ->
                 /\ runPc' = "exited"
                 /\ exitStatus' = 1
                 /\ UNCHANGED <<calls, notifications, workDir, pending>>
            [] outcome = "chapters" ->
                 /\ workDir' = TRUE
                 /\ pending' \in 1..MaxRunChapters
                 /\ IF useTelegram(runEnv)
                    THEN runPc' = "info" /\ calls' = calls \cup {"destination"}
                    ELSE runPc' = "chapters" /\ calls' = calls
                 /\ UNCHANGED <<notifications, exitStatus>>
    /\ UNCHANGED <<runScript, runEnv, hasCover, infoPosted>>
    /\ UNCHANGED <<archived, docs, infoFailed, editFailed>>
    /\ UNCHANGED restRun

\* The post of the info message has come to its end: the message id is
\* kept, or rootMessageId stays null, or the failure reaches main's catch.
InfoReturns ==
    /\ runPc = "info"
    /\ \E outcome \in ApiOutcomes :
          /\ infoFailed' = (outcome # "ok")
          /\ IF infoPostThrows(runScript, outcome)
             THEN Catch(calls) /\ infoPosted' = infoPosted
             ELSE /\ infoPosted' = (outcome = "ok")
                  /\ runPc' = "chapters"
                  /\ UNCHANGED <<calls, notifications, exitStatus>>
    /\ UNCHANGED <<runScript, runEnv, hasCover, workDir>>
    /\ UNCHANGED <<pending, archived, docs, editFailed>>
    /\ UNCHANGED restRun

\* The next iteration of the chapter loop starts.  The per-chapter scripts
\* first update the progress in the info message if it was posted
\* (download.js lines 727-736, part_002 lines 206-211); otherwise the
\* iteration goes to its try block and Chapter.get.
ChapterStarts ==
    /\ runPc = "chapters"
    /\ pending > 0
    /\ IF runScript # "bundle" /\ infoPosted
       THEN runPc' = "progress" /\ calls' = calls \cup {"destination"}
       ELSE runPc' = "chapter" /\ calls' = calls \cup {"catalog"}
    /\ UNCHANGED <<runScript, runEnv, hasCover, infoPosted, notifications, workDir, exitStatus>>
    /\ UNCHANGED <<pending, archived, docs, infoFailed, editFailed>>
    /\ UNCHANGED restRun

\* The progress edit has come to its end; the iteration goes on with
\* Chapter.get unless the failure reaches main's catch.
ProgressEditReturns ==
    /\ runPc = "progress"
    /\ \E outcome \in ApiOutcomes :
          /\ editFailed' = (editFailed \/ outcome # "ok")
          /\ IF editThrows(runScript, outcome)
             THEN Catch(calls)
             ELSE /\ runPc' = "chapter"
                  /\ calls' = calls \cup {"catalog"}
                  /\ UNCHANGED <<notifications, exitStatus>>
    /\ UNCHANGED <<runScript, runEnv, hasCover, infoPosted, workDir>>
    /\ UNCHANGED <<pending, archived, docs, infoFailed>>
    /\ UNCHANGED restRun

\* The try block of the iteration has ended: the chapter was downloaded and
\* archived (the per-chapter scripts then send the archive if the info
\* message was posted), or a failure was caught by the chapter's catch
\* (download.js lines 371-373, 784-787; part_002 lines 242-244), after
\* Chapter.get or after page downloads.
ChapterEnds ==
    /\ runPc = "chapter"
    /\ \E outcome \in {"archived", "failedEarly", "failedLate"} :
          /\ archived' = IF outcome = "archived" THEN archived + 1 ELSE archived
          /\ calls' = calls \cup (IF outcome # "failedEarly" THEN {"asset"} ELSE {})
                            \cup (IF outcome = "archived" /\ runScript # "bundle" /\ infoPosted
                                  THEN {"destination"} ELSE {})
    /\ pending' = pending - 1
    /\ runPc' = "chapters"
    /\ UNCHANGED <<runScript, runEnv, hasCover, infoPosted, notifications, workDir, exitStatus>>
    /\ UNCHANGED <<docs, infoFailed, editFailed>>
    /\ UNCHANGED restRun

\* The chapter loop has ended.  The bundling script starts its uploads, the
\* per-chapter scripts (which upload inside the loop) their final edit.
ChaptersDone ==
    /\ runPc = "chapters"
    /\ pending = 0
    /\ runPc' = IF runScript = "bundle" THEN "upload" ELSE "finalEdit"
    /\ UNCHANGED <<runScript, runEnv, calls, hasCover, infoPosted, notifications, workDir,
                   exitStatus>>
    /\ UNCHANGED <<pending, archived, docs, infoFailed, editFailed>>
    /\ UNCHANGED restRun

\* uploadBundle submits a bundle document (line 414, an attempt of
\* sendDocumentWithThumb): there is a bundle only if a chapter was archived
BundleSubmitted ==
    /\ runPc = "upload"
    /\ archived > 0
    /\ submitsDocument(infoPosted)
    /\ docs < MaxRunDocs
    /\ docs' = docs + 1
    /\ calls' = calls \cup {"destination"}
    /\ UNCHANGED <<runScript, runEnv, runPc, hasCover, infoPosted, notifications, workDir,
                   exitStatus>>
    /\ UNCHANGED <<pending, archived, infoFailed, editFailed>>
    /\ UNCHANGED restRun

\* The loop over the batches of uploadBundle (lines 420-424) has ended, every
\* bundle submitted unless the uploads were skipped, or an upload has thrown
\* (line 82) into main's catch.
UploadsReturn ==
    /\ runPc = "upload"
    /\ \E outcome \in {"resolved", "thrown"} :
          IF outcome = "resolved"
          THEN /\ (archived > 0 /\ submitsDocument(infoPosted)) => docs > 0
               /\ runPc' = "finalEdit"
               /\ UNCHANGED <<calls, notifications, exitStatus>>
          ELSE /\ docs > 0
               /\ Catch(calls)
    /\ UNCHANGED <<runScript, runEnv, hasCover, infoPosted, workDir>>
    /\ UNCHANGED <<pending, archived, docs, infoFailed, editFailed>>
    /\ UNCHANGED restRun

\* The final edit of the info message, made if it was posted (download.js
\* lines 427-434, 794-806; part_002 lines 250-255), and the end of main: the
\* bundling script and part_002 remove workDir (line 437; part_002 line
\* 258), the per-chapter script writes summary.txt into it (line 816).
FinalEditReturns ==
    /\ runPc = "finalEdit"
    /\ \E outcome \in IF infoPosted THEN ApiOutcomes ELSE {"ok"} :
          /\ editFailed' = (editFailed \/ outcome # "ok")
          /\ IF editThrows(runScript, outcome)
             THEN Catch(calls) /\ workDir' = workDir
             ELSE /\ workDir' = (runScript = "chapter")
                  /\ runPc' = "exited"
                  /\ exitStatus' = 0
                  /\ UNCHANGED <<calls, notifications>>
    /\ UNCHANGED <<runScript, runEnv, hasCover, infoPosted>>
    /\ UNCHANGED <<pending, archived, docs, infoFailed>>
    /\ UNCHANGED restRun

\* the sendText of main's catch has returned or thrown: process.exit(1)
NotifyReturns ==
    /\ runPc = "notify"
    /\ runPc' = "exited"
    /\ exitStatus' = 1
    /\ UNCHANGED <<runScript, runEnv, calls, hasCover, infoPosted, notifications, workDir>>
    /\ UNCHANGED <<pending, archived, docs, infoFailed, editFailed>>
    /\ UNCHANGED restRun

RunNext ==
    \/ Start \/ MangaGetReturns \/ CoverReturns \/ RunGetFeedReturns \/ InfoReturns
    \/ ChapterStarts \/ ProgressEditReturns \/ ChapterEnds \/ ChaptersDone
    \/ BundleSubmitted \/ UploadsReturn \/ FinalEditReturns \/ NotifyReturns
SpecRun == RunInit /\ [][RunNext]_vars

\* the run was aborted: main's catch has run, or the process has exited
\* with status 1
Aborted == runPc = "notify" \/ exitStatus = 1

\* C32: a failure of an editMessageText call never changes the outcome of
\* the run: it is ignored and the run does not abort, and when the run has
\* ended every selected chapter has been processed.
C32_EditFailureIgnored ==
    editFailed => (~Aborted /\ (runPc = "exited" => pending = 0))

\* C33: when the post of the title message of the per-chapter script fails,
\* the run goes on without the destination and does not abort.
C33_TitleFailureFallsBack ==
    (runScript = "chapter" /\ infoFailed) => ~Aborted

\* C34: no bundle document is submitted before the root info message has
\* been posted and before every selected chapter has reached the end of its
\* iteration, archived or skipped.
C34_DownloadBeforeDelivery ==
    docs > 0 =>
        /\ infoPosted
        /\ pending = 0
        /\ runPc \in {"upload", "finalEdit", "notify", "exited"}
C34_Witness ==
    /\ runScript = "bundle"
    /\ runPc = "upload"
    /\ docs = 1
    /\ archived = 1
    /\ infoPosted
    /\ pending = 0

\* C21: every run that aborts (exit status other than 0) with the
\* destination configured has attempted exactly one failure notification
\* before it exited.
C21_OneNotificationOnAbort ==
    (runPc = "exited" /\ exitStatus # 0 /\ useTelegram(runEnv)) => notifications = 1

\* C22: in every terminal state of the run, after a normal end or after an
\* abort, the working directory does not exist.
C22_WorkDirRemoved ==
    runPc = "exited" => ~workDir

\* C27 as stated: when MANGA_INPUT, TELEGRAM_CHAT_ID or TELEGRAM_BOT_TOKEN is
\* missing, no network call is ever issued and the run aborts.
C27_MissingConfigNoCalls ==
    (~runEnv.mangaInput \/ ~runEnv.chatId \/ ~runEnv.token) =>
        /\ calls = {}
        /\ runPc = "exited" => exitStatus = 1

\* C27 amended: when MANGA_INPUT is missing, or, in the bundling script,
\* TELEGRAM_CHAT_ID or TELEGRAM_BOT_TOKEN is missing, no network call is
\* ever issued and the run ends with status 1 without another step.
C27_RequiredConfigNoCalls ==
    (~runEnv.mangaInput \/ (runScript = "bundle" /\ (~runEnv.chatId \/ ~runEnv.token))) =>
        /\ calls = {}
        /\ runPc \in {"start", "exited"}
        /\ runPc = "exited" => exitStatus = 1
C27_Witness ==
    /\ runScript = "bundle"
    /\ runEnv.mangaInput
    /\ ~runEnv.token
    /\ runPc = "exited"
    /\ exitStatus = 1
    /\ calls = {}


(***************************************************************************)
(* The paging loop over the chapter feed: download.js lines 291-304 (the   *)
(* bundling script) and 652-675 (the per-chapter script), part_000 lines   *)
(* 438-453.  A page of the feed is its number of descriptors.              *)
(***************************************************************************)
\* if (allChapters.length >= 300 ...) break;
feedThreshold == 300
\* ... || offset >= 500 (bundling script only)
offsetThreshold == 500

\* limit: 500 (line 295); const limit = 100 (line 654, part_000 line 440)
feedLimit(s) == IF s = "bundle" THEN 500 ELSE 100

\* the sizes of the pages the catalog can answer a request of `limit` with
FeedPageLengths(limit) == {0, 1, limit}

\* line 303: if (allChapters.length >= 300 || offset >= 500) break;
\* line 669, part_000 line 451: if (allChapters.length >= 300) break;
stopReachedNever(s, count, off) == FALSE
stopReached(s, count, off) ==
    count >= feedThreshold \/ (s = "bundle" /\ off >= offsetThreshold)

FeedInit ==
    /\ feedScript \in {"bundle", "chapter", "part_000"}
    /\ feedOffset = 0
    /\ feedCount = 0
    /\ feedAsked = {}
    /\ feedRequests = 0
    /\ feedEmpty = FALSE
    /\ feedPc = "loop"
    /\ IdleButFeed

\* const chapters = await manga.getFeed({ limit, offset, ... }): the call
FeedRequest ==
    /\ feedPc = "loop"
    /\ feedAsked' = feedAsked \cup {feedOffset}
    /\ feedRequests' = feedRequests + 1
    /\ feedPc' = "getFeed"
    /\ UNCHANGED <<feedScript, feedOffset, feedCount, feedEmpty>>
    /\ UNCHANGED restFeed

\* getFeed returns a page: an empty page ends the loop; otherwise the page
\* is pushed, offset is advanced by the limit and the loop ends when the
\* threshold is reached, or goes on (the per-chapter scripts after a sleep of
\* 500 ms)
FeedReturns ==
    /\ feedPc = "getFeed"
    /\ \E n \in FeedPageLengths(feedLimit(feedScript)) :
          IF n = 0
          THEN /\ feedEmpty' = TRUE
               /\ feedPc' = "done"
               /\ UNCHANGED <<feedOffset, feedCount>>
          ELSE /\ feedCount' = feedCount + n
               /\ feedOffset' = feedOffset + feedLimit(feedScript)
               /\ feedPc' = IF stopReached(feedScript, feedCount', feedOffset') THEN "done"
                            ELSE IF feedScript = "bundle" THEN "loop" ELSE "sleep"
               /\ UNCHANGED feedEmpty
    /\ UNCHANGED <<feedScript, feedAsked, feedRequests>>
    /\ UNCHANGED restFeed

\* getFeed throws: main's catch ends the run
FeedThrows ==
    /\ feedPc = "getFeed"
    /\ feedPc' = "exit"
    /\ UNCHANGED <<feedScript, feedOffset, feedCount, feedAsked, feedRequests, feedEmpty>>
    /\ UNCHANGED restFeed

\* await new Promise(r => setTimeout(r, 500)) ends
FeedSleepEnds ==
    /\ feedPc = "sleep"
    /\ feedPc' = "loop"
    /\ UNCHANGED <<feedScript, feedOffset, feedCount, feedAsked, feedRequests, feedEmpty>>
    /\ UNCHANGED restFeed

FeedNext == FeedRequest \/ FeedReturns \/ FeedThrows \/ FeedSleepEnds
SpecFeed == FeedInit /\ [][FeedNext]_vars

\* the most getFeed calls a run makes: every page before the last has at
\* least one descriptor, and the bundling script stops after one page
MostFeedRequests == IF feedScript = "bundle" THEN 1 ELSE feedThreshold

\* C39: the paging loop requests the feed at strictly increasing offsets,
\* never one offset twice, it is left exactly when a page was empty or the
\* stop threshold is reached, and the number of its requests is bounded
\* whatever pages the catalog returns.
C39_FeedLoopBounded ==
    /\ Cardinality(feedAsked) = feedRequests
    /\ \A o \in feedAsked : o <= feedOffset
    /\ feedPc = "loop" => feedOffset \notin feedAsked
    /\ (feedEmpty \/ stopReached(feedScript, feedCount, feedOffset)) <=> feedPc = "done"
    /\ feedRequests <= MostFeedRequests
C39_Witness ==
    /\ feedScript = "chapter"
    /\ feedPc = "done"
    /\ feedRequests = feedThreshold
    /\ feedCount = feedThreshold
    /\ ~feedEmpty

====
